---------------------------- MODULE Spec2Model ----------------------------
(***************************************************************************)
(* Model of the advent-calendar date/task core:                            *)
(*   - utils/dateUtils   (src/unnamed/part_002): YYYY-MM-DD parsing and    *)
(*     formatting, task-date and day-count arithmetic, the time facade;    *)
(*   - composables/useAppConfig (src/src/composables/useTokens.ts, lines   *)
(*     63..487): validation, day-list generation, watchers, day ticker;    *)
(*   - components/CalendarContent.vue: the todayYMD watcher, day clicks,   *)
(*     the rendered task of a day.                                         *)
(*                                                                         *)
(* Time is counted in whole hours since 1970-01-01T00:00Z.  A JavaScript   *)
(* Date is its time value (an integer number of hours).  Strings are       *)
(* sequences of one-character strings.  The host time zone is a record     *)
(* [std |-> standard offset, dst |-> set of <<from, to>> UTC intervals in  *)
(* which the offset is std + 1].                                           *)
(***************************************************************************)
EXTENDS Integers, Sequences, FiniteSets, TLC

(***************************************************************************)
(* Strings                                                                 *)
(***************************************************************************)
Digits == <<"0", "1", "2", "3", "4", "5", "6", "7", "8", "9">>

DigitSet == {Digits[k] : k \in 1..10}

DigitVal(c) == (CHOOSE k \in 1..10 : Digits[k] = c) - 1

\* String(n) of a JavaScript integer number
RECURSIVE Str(_)
Str(n) ==
  IF n < 0 THEN <<"-">> \o Str(0 - n)
  ELSE IF n < 10 THEN <<Digits[n + 1]>>
  ELSE Str(n \div 10) \o <<Digits[(n % 10) + 1]>>

\* String.prototype.padStart(len, c)
RECURSIVE PadStart(_, _, _)
PadStart(s, len, c) == IF Len(s) >= len THEN s ELSE PadStart(<<c>> \o s, len, c)

\* String.prototype.split(sep) for a one-character separator
RECURSIVE SplitFrom(_, _, _)
SplitFrom(s, sep, cur) ==
  IF s = <<>> THEN <<cur>>
  ELSE IF Head(s) = sep THEN <<cur>> \o SplitFrom(Tail(s), sep, <<>>)
  ELSE SplitFrom(Tail(s), sep, Append(cur, Head(s)))

Split(s, sep) == SplitFrom(s, sep, <<>>)

RECURSIVE DecimalValue(_)
DecimalValue(s) ==
  IF s = <<>> THEN 0 ELSE DecimalValue(SubSeq(s, 1, Len(s) - 1)) * 10 + DigitVal(s[Len(s)])

\* Number(s) for a string over digits and letters: the empty string is 0, a
\* run of digits is its decimal value, a string with a letter is NaN.
Number(s) ==
  IF \A k \in 1..Len(s) : s[k] \in DigitSet
    THEN [nan |-> FALSE, v |-> DecimalValue(s)]
    ELSE [nan |-> TRUE, v |-> 0]

LowerCase ==
  <<"a", "b", "c", "d", "e", "f", "g", "h", "i", "j", "k", "l", "m",
    "n", "o", "p", "q", "r", "s", "t", "u", "v", "w", "x", "y", "z">>

UpperCase ==
  <<"A", "B", "C", "D", "E", "F", "G", "H", "I", "J", "K", "L", "M",
    "N", "O", "P", "Q", "R", "S", "T", "U", "V", "W", "X", "Y", "Z">>

\* String.prototype.toUpperCase()
ToUpperCase(s) ==
  [k \in 1..Len(s) |->
     IF \E j \in 1..26 : LowerCase[j] = s[k]
       THEN UpperCase[CHOOSE j \in 1..26 : LowerCase[j] = s[k]]
       ELSE s[k]]

(***************************************************************************)
(* The Date object of the host (ECMAScript day and time arithmetic)        *)
(***************************************************************************)
HoursPerDay == 24

Day(t) == t \div HoursPerDay

TimeWithinDay(t) == t % HoursPerDay

IsLeapYear(y) == (y % 4 = 0 /\ y % 100 # 0) \/ y % 400 = 0

DaysInYear(y) == IF IsLeapYear(y) THEN 366 ELSE 365

DayFromYear(y) ==
  365 * (y - 1970) + ((y - 1969) \div 4) - ((y - 1901) \div 100) + ((y - 1601) \div 400)

RECURSIVE YearUp(_, _)
YearUp(y, d) == IF DayFromYear(y + 1) <= d THEN YearUp(y + 1, d) ELSE y

RECURSIVE YearDown(_, _)
YearDown(y, d) == IF DayFromYear(y) > d THEN YearDown(y - 1, d) ELSE y

\* the year that holds day number d
YearFromDay(d) == YearUp(YearDown(1970 + (d \div 366), d), d)

\* days before month index m (0..11) in year y
CumDays == <<0, 31, 59, 90, 120, 151, 181, 212, 243, 273, 304, 334>>

MonthStart(y, m) == CumDays[m + 1] + (IF m >= 2 /\ IsLeapYear(y) THEN 1 ELSE 0)

DayWithinYear(d) == d - DayFromYear(YearFromDay(d))

\* month index 0..11 of day number d
MonthFromDay(d) ==
  LET y == YearFromDay(d)
      n == DayWithinYear(d)
  IN  CHOOSE m \in 0..11 :
        /\ MonthStart(y, m) <= n
        /\ (m = 11 \/ n < MonthStart(y, m + 1))

\* day of month 1..31 of day number d
DateFromDay(d) == DayWithinYear(d) - MonthStart(YearFromDay(d), MonthFromDay(d)) + 1

\* MakeDay(year, month index, date): month and date may lie outside their
\* ranges and carry over.
MakeDay(year, month, date) ==
  LET ym == year + (month \div 12)
      mn == month % 12
  IN  DayFromYear(ym) + MonthStart(ym, mn) + date - 1

\* offset of local time from UTC at the instant t
Offset(zone, t) ==
  zone.std + (IF \E iv \in zone.dst : iv[1] <= t /\ t < iv[2] THEN 1 ELSE 0)

LocalTime(zone, t) == t + Offset(zone, t)

\* UTC(local time): the instant whose local time is lt; a repeated local time
\* takes the earlier instant, a skipped one is read with the offset before
\* the transition.
UTCOfLocal(zone, lt) ==
  LET cand == {lt - o : o \in {x \in {zone.std, zone.std + 1} : Offset(zone, lt - x) = x}}
  IN  IF cand = {} THEN lt - zone.std
      ELSE CHOOSE t \in cand : \A u \in cand : t <= u

\* new Date(y, monthIndex, d): local midnight; years 0..99 mean 1900..1999
NewDateLocal(zone, y, monthIndex, d) ==
  LET yy == IF 0 <= y /\ y <= 99 THEN 1900 + y ELSE y
  IN  UTCOfLocal(zone, MakeDay(yy, monthIndex, d) * HoursPerDay)

\* Date.UTC(y, monthIndex, d)
DateUTC(y, monthIndex, d) ==
  LET yy == IF 0 <= y /\ y <= 99 THEN 1900 + y ELSE y
  IN  MakeDay(yy, monthIndex, d) * HoursPerDay

getFullYear(zone, t) == YearFromDay(Day(LocalTime(zone, t)))
getMonth(zone, t) == MonthFromDay(Day(LocalTime(zone, t)))
getDate(zone, t) == DateFromDay(Day(LocalTime(zone, t)))
getUTCFullYear(t) == YearFromDay(Day(t))
getUTCMonth(t) == MonthFromDay(Day(t))
getUTCDate(t) == DateFromDay(Day(t))

\* Date.prototype.getDay(): 0 = Sunday; day number 0 was a Thursday
getDay(zone, t) == (Day(LocalTime(zone, t)) + 4) % 7

\* Date.prototype.setDate(dt): same local year, month and time of day
setDate(zone, t, dt) ==
  LET lt == LocalTime(zone, t)
  IN  UTCOfLocal(zone,
        MakeDay(YearFromDay(Day(lt)), MonthFromDay(Day(lt)), dt) * HoursPerDay
          + TimeWithinDay(lt))

\* Date.prototype.setUTCDate(dt)
setUTCDate(t, dt) ==
  MakeDay(YearFromDay(Day(t)), MonthFromDay(Day(t)), dt) * HoursPerDay + TimeWithinDay(t)

\* Date.prototype.setHours(0, 0, 0, 0)
setHoursZero(zone, t) == UTCOfLocal(zone, Day(LocalTime(zone, t)) * HoursPerDay)

\* Date.prototype.setUTCHours(0, 0, 0, 0)
setUTCHoursZero(t) == Day(t) * HoursPerDay

\* Math.ceil(a / b) and Math.floor(a / b) for b > 0
CeilDiv(a, b) == 0 - ((0 - a) \div b)
FloorDiv(a, b) == a \div b

(***************************************************************************)
(* utils/dateUtils                                                         *)
(***************************************************************************)
Thrown == [ok |-> FALSE, t |-> 0]

ymdLocal(zone, d) ==
  Str(getFullYear(zone, d)) \o <<"-">>
    \o PadStart(Str(getMonth(zone, d) + 1), 2, "0") \o <<"-">>
    \o PadStart(Str(getDate(zone, d)), 2, "0")

\* returns [ok, t]: ok = FALSE stands for the thrown Error
parseYMDLocal(zone, s) ==
  LET parts == [k \in 1..Len(Split(s, "-")) |-> Number(Split(s, "-")[k])]
  IN  IF Len(parts) # 3 \/ \E k \in 1..Len(parts) : parts[k].nan
        THEN Thrown
        ELSE [ok |-> TRUE, t |-> NewDateLocal(zone, parts[1].v, parts[2].v - 1, parts[3].v)]

\* faulty variant of getTaskDate: the index is added to the day number and
\* the sum is written out without carrying into the next month
getTaskDateNoCarry(zone, taskIndex, startDate) ==
  LET start == parseYMDLocal(zone, startDate).t
  IN  Str(getFullYear(zone, start)) \o <<"-">>
        \o PadStart(Str(getMonth(zone, start) + 1), 2, "0") \o <<"-">>
        \o PadStart(Str(getDate(zone, start) + taskIndex), 2, "0")

getTaskDate(zone, taskIndex, startDate) ==
  LET start == parseYMDLocal(zone, startDate).t
  IN  ymdLocal(zone, setDate(zone, start, getDate(zone, start) + taskIndex))

getDaysBetween(zone, startDate, endDate) ==
  LET start == parseYMDLocal(zone, startDate).t
      end == parseYMDLocal(zone, endDate).t
  IN  CeilDiv(end - start, HoursPerDay) + 1

isToday(zone, clock, dateString) == dateString = ymdLocal(zone, clock)

ymdUTC(d) ==
  Str(getUTCFullYear(d)) \o <<"-">>
    \o PadStart(Str(getUTCMonth(d) + 1), 2, "0") \o <<"-">>
    \o PadStart(Str(getUTCDate(d)), 2, "0")

parseYMDUTC(s) ==
  LET parts == [k \in 1..Len(Split(s, "-")) |-> Number(Split(s, "-")[k])]
  IN  IF Len(parts) # 3 \/ \E k \in 1..Len(parts) : parts[k].nan
        THEN Thrown
        ELSE [ok |-> TRUE, t |-> DateUTC(parts[1].v, parts[2].v - 1, parts[3].v)]

isTodayUTC(clock, dateString) == dateString = ymdUTC(clock)

\* makeTime(mode): the facade's members, the mode passed along
ymdByMode(mode, zone, d) == IF mode = "utc" THEN ymdUTC(d) ELSE ymdLocal(zone, d)

parseYMDByMode(mode, zone, s) ==
  IF mode = "utc" THEN parseYMDUTC(s) ELSE parseYMDLocal(zone, s)

isTodayByMode(mode, zone, clock, dateString) ==
  IF mode = "utc" THEN isTodayUTC(clock, dateString) ELSE isToday(zone, clock, dateString)

getTaskDateByMode(mode, zone, taskIndex, startDate) ==
  LET start == parseYMDByMode(mode, zone, startDate).t
  IN  IF mode = "utc"
        THEN ymdUTC(setUTCDate(start, getUTCDate(start) + taskIndex))
        ELSE ymdLocal(zone, setDate(zone, start, getDate(zone, start) + taskIndex))

getDaysBetweenByMode(mode, zone, startDate, endDate) ==
  LET start == parseYMDByMode(mode, zone, startDate).t
      end == parseYMDByMode(mode, zone, endDate).t
      s0 == IF mode = "utc" THEN setUTCHoursZero(start) ELSE setHoursZero(zone, start)
      e0 == IF mode = "utc" THEN setUTCHoursZero(end) ELSE setHoursZero(zone, end)
  IN  FloorDiv(e0 - s0, HoursPerDay) + 1

\* the null returned by the strict parsers
Null == [ok |-> FALSE, t |-> 0]

\* parseYMDStrict: [ok, t], ok = FALSE stands for null
parseYMDStrict(zone, dateString) ==
  LET parts == [k \in 1..Len(Split(dateString, "-")) |-> Number(Split(dateString, "-")[k])]
  IN  IF Len(parts) # 3 \/ \E k \in 1..Len(parts) : parts[k].nan THEN Null
      ELSE IF parts[1].v = 0 \/ parts[2].v = 0 \/ parts[3].v = 0 THEN Null
      ELSE LET date == NewDateLocal(zone, parts[1].v, parts[2].v - 1, parts[3].v)
           IN  IF \/ getFullYear(zone, date) # parts[1].v
                  \/ getMonth(zone, date) # parts[2].v - 1
                  \/ getDate(zone, date) # parts[3].v
                 THEN Null
                 ELSE [ok |-> TRUE, t |-> date]

\* parseYMDStrict of scripts/validate-config.mjs
validateConfigParseYMDStrict(zone, dateString) ==
  LET parts == [k \in 1..Len(Split(dateString, "-")) |-> Number(Split(dateString, "-")[k])]
  IN  IF Len(parts) # 3 \/ \E k \in 1..Len(parts) : parts[k].nan THEN Null
      ELSE IF parts[1].v = 0 \/ parts[2].v = 0 \/ parts[3].v = 0 THEN Null
      ELSE LET date == NewDateLocal(zone, parts[1].v, parts[2].v - 1, parts[3].v)
           IN  IF \/ getFullYear(zone, date) # parts[1].v
                  \/ getMonth(zone, date) # parts[2].v - 1
                  \/ getDate(zone, date) # parts[3].v
                 THEN Null
                 ELSE [ok |-> TRUE, t |-> date]

\* the regions of the fallback of getFirstDayOfWeekFromLang
SundayRegions == {<<"U", "S">>, <<"C", "A">>, <<"P", "H">>}

\* what the platform gives for `new Intl.Locale(lang).weekInfo?.firstDay`:
\* the constructor throws, there is no week info, or a number
LocaleThrows == [threw |-> TRUE, has |-> FALSE, firstDay |-> 0]

NoWeekInfo == [threw |-> FALSE, has |-> FALSE, firstDay |-> 0]

FirstDay(n) == [threw |-> FALSE, has |-> TRUE, firstDay |-> n]

\* getFirstDayOfWeekFromLang(lang, cfg) on a platform answering weekInfo
getFirstDayOfWeekFromLang(weekInfo, lang, cfg) ==
  IF cfg = "monday" THEN 1
  ELSE IF cfg = "sunday" THEN 0
  ELSE IF ~weekInfo.threw /\ weekInfo.has /\ weekInfo.firstDay \in {0, 1}
    THEN weekInfo.firstDay
  ELSE LET parts == Split(lang, "-")
           region == IF Len(parts) >= 2 THEN ToUpperCase(parts[2]) ELSE <<>>
       IN  IF region \in SundayRegions THEN 0 ELSE 1

\* buildMonthDays(year, monthIndex, firstDayOfWeek)
buildMonthDays(zone, year, monthIndex, firstDayOfWeek) ==
  LET firstDate == NewDateLocal(zone, year, monthIndex, 1)
      weekday == getDay(zone, firstDate)
      offset == (weekday - firstDayOfWeek + 7) % 7
      daysInMonth == getDate(zone, NewDateLocal(zone, year, monthIndex + 1, 0))
      ymdOf(d) == Str(year) \o <<"-">> \o PadStart(Str(monthIndex + 1), 2, "0")
                    \o <<"-">> \o PadStart(Str(d), 2, "0")
  IN  [i \in 1..offset |->
         [id |-> <<"p", "h", "-">> \o Str(year) \o <<"-">> \o Str(monthIndex)
                   \o <<"-">> \o Str(i - 1),
          isPlaceholder |-> TRUE,
          day |-> 0]]
      \o [d \in 1..daysInMonth |->
            [id |-> ymdOf(d), isPlaceholder |-> FALSE, day |-> d, date |-> ymdOf(d)]]

(***************************************************************************)
(* Calendar reference: civil dates as <<year, month, day>> triples stepped *)
(* one day at a time, and the inputs built from them                       *)
(***************************************************************************)
DaysInMonth(y, m) ==
  IF m = 2 THEN (IF IsLeapYear(y) THEN 29 ELSE 28)
  ELSE IF m \in {4, 6, 9, 11} THEN 30 ELSE 31

NextDay(c) ==
  IF c[3] < DaysInMonth(c[1], c[2]) THEN <<c[1], c[2], c[3] + 1>>
  ELSE IF c[2] < 12 THEN <<c[1], c[2] + 1, 1>>
  ELSE <<c[1] + 1, 1, 1>>

RECURSIVE AddDays(_, _)
AddDays(c, n) == IF n = 0 THEN c ELSE AddDays(NextDay(c), n - 1)

Before(c1, c2) ==
  \/ c1[1] < c2[1]
  \/ c1[1] = c2[1] /\ c1[2] < c2[2]
  \/ c1[1] = c2[1] /\ c1[2] = c2[2] /\ c1[3] < c2[3]

\* number of dates from c1 to c2 inclusive (0 when c2 is before c1)
RECURSIVE CountDays(_, _)
CountDays(c1, c2) == IF Before(c2, c1) THEN 0 ELSE 1 + CountDays(NextDay(c1), c2)

\* the text YYYY-MM-DD of a civil date
Text(c) ==
  PadStart(Str(c[1]), 4, "0") \o <<"-">> \o PadStart(Str(c[2]), 2, "0")
    \o <<"-">> \o PadStart(Str(c[3]), 2, "0")

\* the civil date a well-formed YYYY-MM-DD text names, read by position
Civil(s) ==
  <<DecimalValue(SubSeq(s, 1, 4)), DecimalValue(SubSeq(s, 6, 7)), DecimalValue(SubSeq(s, 9, 10))>>


(***************************************************************************)
(* Bounds and inputs                                                       *)
(***************************************************************************)
\* longest task list
MaxTasks == 2

\* endDate ranges from one day before startDate to MaxSpan days after it
MaxSpan == 2

\* number of times the wall clock advances
MaxClock == 2

\* number of times instantiateAppConfig may run
MaxRuns == 2

\* number of calls of createAppConfig and useAppConfig in one application
MaxCalls == 3

\* largest task index handed to the task-date functions
MaxIndex == 4

\* host time zones: UTC, and Europe/Berlin, America/New_York and Asia/Beirut
\* with their 2025 daylight-saving periods; Asia/Beirut changes its clocks at
\* local midnight (00:00 -> 01:00 on 2025-03-30, 24:00 -> 23:00 on 2025-10-25)
ZoneUTC == [std |-> 0, dst |-> {}]

ZoneBerlin ==
  [std |-> 1, dst |-> {<<DateUTC(2025, 2, 30) + 1, DateUTC(2025, 9, 26) + 1>>}]

ZoneNewYork ==
  [std |-> 0 - 5, dst |-> {<<DateUTC(2025, 2, 9) + 7, DateUTC(2025, 10, 2) + 6>>}]

ZoneBeirut ==
  [std |-> 2, dst |-> {<<DateUTC(2025, 2, 29) + 22, DateUTC(2025, 9, 25) + 21>>}]

Zones == {ZoneUTC, ZoneBerlin, ZoneNewYork, ZoneBeirut}

\* the zones the application is run in
AppZones == {ZoneBerlin, ZoneNewYork}

TimeModes == {"local", "utc"}

\* start dates handed to the date functions: the days of the autumn and the
\* spring transition, the day before a leap day, the last day of February
\* and the last day of a year
StartDates ==
  {<<2025, 10, 26>>, <<2025, 3, 30>>, <<2024, 2, 28>>, <<2025, 2, 28>>, <<2025, 12, 31>>}

\* the configured start date of the application: the day Europe/Berlin
\* leaves daylight-saving time
AppStartDates == {<<2025, 10, 26>>}

\* the day before a civil date
PrevDay(c) ==
  IF c[3] > 1 THEN <<c[1], c[2], c[3] - 1>>
  ELSE IF c[2] > 1 THEN <<c[1], c[2] - 1, DaysInMonth(c[1], c[2] - 1)>>
  ELSE <<c[1] - 1, 12, 31>>

EndDates(start) == {PrevDay(start)} \cup {AddDays(start, n) : n \in 0..MaxSpan}

\* the end dates configured for the application: an inverted range, a range
\* of one day and the longest range
AppEndDates(start) == {PrevDay(start), start, AddDays(start, MaxSpan)}

\* a task list of n tasks; a task is known by its ordinal
TaskList(n) == [i \in 1..n |-> i]

\* no ?testDate in the URL
NoTestDate == <<>>

\* the instants at which the model looks at the wall clock: 03:00Z and 23:00Z
\* of the start date and of the days after it
Grid(start, k) ==
  DateUTC(start[1], start[2] - 1, start[3]) + (k \div 2) * HoursPerDay
    + (IF k % 2 = 0 THEN 3 ELSE 23)

(***************************************************************************)
(* composables/useAppConfig: validation, generation, task mapping          *)
(***************************************************************************)
\* validateTasksAndDays: [threw, warned]; the guard is set on the first call
validateTasksAndDays(performed, zone, tasks, startDate, endDate) ==
  IF performed THEN [threw |-> FALSE, warned |-> FALSE]
  ELSE IF Len(tasks) = 0 THEN [threw |-> TRUE, warned |-> FALSE]
  ELSE [threw |-> FALSE,
        warned |-> Len(tasks) # getDaysBetween(zone, startDate, endDate)]

\* faulty variant of the loop of generateCalendarDays: the record of today is
\* created selected
RECURSIVE DaysLoopSelectsToday(_, _, _, _, _)
DaysLoopSelectsToday(zone, clock, currentDay, endDate, id) ==
  IF currentDay <= endDate
    THEN <<[id |-> id,
            day |-> getDate(zone, currentDay),
            date |-> ymdLocal(zone, currentDay),
            isActive |-> FALSE,
            isSelected |-> isToday(zone, clock, ymdLocal(zone, currentDay)),
            isToday |-> isToday(zone, clock, ymdLocal(zone, currentDay)),
            hasTask |-> TRUE,
            task |-> 0]>>
         \o DaysLoopSelectsToday(zone, clock,
                                 setDate(zone, currentDay, getDate(zone, currentDay) + 1),
                                 endDate, id + 1)
    ELSE <<>>

\* the while loop of generateCalendarDays; task 0 stands for "no task yet"
RECURSIVE DaysLoop(_, _, _, _, _)
DaysLoop(zone, clock, currentDay, endDate, id) ==
  IF currentDay <= endDate
    THEN <<[id |-> id,
            day |-> getDate(zone, currentDay),
            date |-> ymdLocal(zone, currentDay),
            isActive |-> FALSE,
            isSelected |-> FALSE,
            isToday |-> isToday(zone, clock, ymdLocal(zone, currentDay)),
            hasTask |-> TRUE,
            task |-> 0]>>
         \o DaysLoop(zone, clock, setDate(zone, currentDay, getDate(zone, currentDay) + 1),
                     endDate, id + 1)
    ELSE <<>>

\* generateCalendarDays after its call of validateTasksAndDays
generateCalendarDays(zone, clock, startDate, endDate) ==
  DaysLoop(zone, clock, parseYMDLocal(zone, startDate).t, parseYMDLocal(zone, endDate).t, 1)

\* faulty variant of getTaskForDay: past the end of the task list the last
\* task is taken, the list does not start over
getTaskForDayNoWrap(dayIndex, tasks) ==
  IF Len(tasks) = 0 THEN [ok |-> FALSE, task |-> 0]
  ELSE [ok |-> TRUE,
        task |-> tasks[(IF dayIndex < Len(tasks) THEN dayIndex ELSE Len(tasks) - 1) + 1]]

\* getTaskForDay(dayIndex, tasks): [ok, task]; with no tasks the index is NaN,
\* the lookup undefined and the Error thrown
getTaskForDay(dayIndex, tasks) ==
  IF Len(tasks) = 0 THEN [ok |-> FALSE, task |-> 0]
  ELSE [ok |-> TRUE, task |-> tasks[(dayIndex % Len(tasks)) + 1]]

\* getTaskForDate(date, tasks, config): [ok, task], ok = FALSE for undefined
getTaskForDate(zone, date, tasks, startDate) ==
  LET start == parseYMDLocal(zone, startDate).t
      target == parseYMDLocal(zone, date).t
      dayIndex == FloorDiv(target - start, HoursPerDay)
  IN  IF dayIndex >= 0 /\ dayIndex < Len(tasks)
        THEN [ok |-> TRUE, task |-> tasks[dayIndex + 1]]
        ELSE [ok |-> FALSE, task |-> 0]

\* the forEach of updateCalendarDays applied to one day
AttachTask(mode, zone, clock, startDate, tasks, day, index) ==
  [day EXCEPT !.hasTask = TRUE,
              !.isActive = isTodayByMode(mode, zone, clock,
                                         getTaskDateByMode(mode, zone, index, startDate)),
              !.task = getTaskForDay(index, tasks).task]

\* updateCalendarDays: [err, days, warned]; err names the Error thrown, and
\* then calendarDays.value is not assigned
updateCalendarDays(performed, mode, zone, clock, tasks, startDate, endDate) ==
  LET v == validateTasksAndDays(performed, zone, tasks, startDate, endDate)
      days == generateCalendarDays(zone, clock, startDate, endDate)
  IN  IF v.threw THEN [err |-> "NoTasks", days |-> <<>>, warned |-> FALSE]
      ELSE IF days # <<>> /\ ~getTaskForDay(0, tasks).ok
        THEN [err |-> "TaskNotFound", days |-> <<>>, warned |-> v.warned]
      ELSE [err |-> "none",
            days |-> [i \in 1..Len(days) |->
                        AttachTask(mode, zone, clock, startDate, tasks, days[i], i - 1)],
            warned |-> v.warned]

\* new Date("YYYY-MM-DD"): a date-only ISO text is read as UTC midnight
newDateFromISO(s) == DateUTC(Civil(s)[1], Civil(s)[2] - 1, Civil(s)[3])

(***************************************************************************)
(* components/CalendarContent.vue                                          *)
(***************************************************************************)
\* position (0-based) of the first day with the given id, -1 when none
FindIndexById(days, id) ==
  IF \E i \in 1..Len(days) : days[i].id = id
    THEN (CHOOSE i \in 1..Len(days) :
            days[i].id = id /\ \A j \in 1..(i - 1) : days[j].id # id) - 1
    ELSE 0 - 1

\* getTaskForDay(day) of the component: the task rendered for a day, 0 for
\* the disabled-task placeholder
RenderedTask(days, tasks, day) ==
  LET dayIndex == FindIndexById(days, day.id)
  IN  IF dayIndex = 0 - 1 \/ Len(tasks) = 0 THEN 0
      ELSE tasks[(dayIndex % Len(tasks)) + 1]

\* position (1-based) of the day to select: the one dated todayStr, else the
\* first; 0 for an empty list
FindToday(days, todayStr) ==
  IF \E i \in 1..Len(days) : days[i].date = todayStr
    THEN CHOOSE i \in 1..Len(days) :
           days[i].date = todayStr /\ \A j \in 1..(i - 1) : days[j].date # todayStr
    ELSE IF Len(days) > 0 THEN 1 ELSE 0

SelectOnly(days, k) == [i \in 1..Len(days) |-> [days[i] EXCEPT !.isSelected = (i = k)]]

\* the body of watch(todayYMD): flags flipped in place
OnTodayChanged(mode, zone, clock, days, newDay) ==
  [i \in 1..Len(days) |->
     [days[i] EXCEPT !.isActive = isTodayByMode(mode, zone, clock, days[i].date),
                     !.isSelected = (days[i].date = newDay)]]

\* the Map byMonth of groupedDays: the days under the key
\* `${dt.getFullYear()}-${dt.getMonth()}` of their parsed date, the keys in
\* the order they were first seen
RECURSIVE ByMonth(_, _, _, _)
ByMonth(mode, zone, days, acc) ==
  IF days = <<>> THEN acc
  ELSE LET dt == parseYMDByMode(mode, zone, Head(days).date).t
           key == <<getFullYear(zone, dt), getMonth(zone, dt)>>
           at == {i \in 1..Len(acc) : acc[i].key = key}
       IN  ByMonth(mode, zone, Tail(days),
                   IF at = {}
                     THEN Append(acc, [key |-> key, days |-> <<Head(days)>>])
                     ELSE [acc EXCEPT ![CHOOSE i \in at : TRUE].days = Append(@, Head(days))])

\* toLocaleDateString(language, { month: 'long' }), for English
MonthNames ==
  <<"January", "February", "March", "April", "May", "June", "July", "August",
    "September", "October", "November", "December">>

\* the placeholder cell pushed by groupedDays
PlaceholderCell(year, monthIndex, i) ==
  [id |-> <<"p", "h", "-">> \o Str(year) \o <<"-">> \o Str(monthIndex) \o <<"-">> \o Str(i),
   day |-> 0,
   date |-> <<>>,
   isActive |-> FALSE,
   isSelected |-> FALSE,
   isToday |-> FALSE,
   hasTask |-> FALSE,
   isPlaceholder |-> TRUE]

\* the computed groupedDays: a sequence of [month, days].  cfg is
\* [alignByWeekday, firstDayOfWeek] of config ("absent" for a missing
\* firstDayOfWeek), wide is the media query (min-width: 768px)
groupedDays(mode, zone, weekInfo, lang, cfg, wide, days) ==
  LET align == cfg.alignByWeekday /\ wide
      fdowCfg == IF cfg.firstDayOfWeek \in {"auto", "monday", "sunday"}
                   THEN cfg.firstDayOfWeek ELSE "auto"
      fdow == getFirstDayOfWeekFromLang(weekInfo, lang, fdowCfg)
      byMonth == ByMonth(mode, zone, days, <<>>)
  IN  [g \in 1..Len(byMonth) |->
         LET sample == parseYMDByMode(mode, zone, byMonth[g].days[1].date).t
             year == getFullYear(zone, sample)
             monthIndex == getMonth(zone, sample)
             offset == (getDay(zone, sample) - fdow + 7) % 7
         IN  [month |-> MonthNames[monthIndex + 1],
              days |-> IF ~align THEN byMonth[g].days
                       ELSE [i \in 1..offset |-> PlaceholderCell(year, monthIndex, i - 1)]
                              \o byMonth[g].days]]

\* CalendarDays.vue: the cell is rendered as the inert div, not as the button
\* with the click handler
IsPlaceholder(day) == "isPlaceholder" \in DOMAIN day /\ day.isPlaceholder

(***************************************************************************)
(* State                                                                   *)
(***************************************************************************)
VARIABLES
  tz,                  \* host time zone
  testDate,            \* queryParams.testDate, NoTestDate when absent
  anchor,              \* the civil date the clock grid is anchored at
  clk,                 \* how often the wall clock has advanced
  configStartDate, configEndDate,  \* config.startDate, config.endDate (texts)
  configTimeMode,            \* config.timeMode
  calendarTasks,               \* calendar.tasks
  instance,            \* "none", "live" (singletonInstance set), "crashed"
  currentDate,         \* currentDate.value
  calendarDays,        \* calendarDays.value
  validationPerformed, \* module-level guard
  warnings,            \* mismatch warnings written by devWarn
  pending,             \* watcher jobs queued for the next flush
  cause,               \* the event the pending jobs stem from
  comp,                \* CalendarContent: "none", "setup", "mounted"
  todaySeen,           \* last value of todayYMD its watcher has seen
  genErr,              \* Error thrown by the last updateCalendarDays
  runs,                \* how often instantiateAppConfig has run
  unloaded,            \* 'beforeunload' has reached the listeners
  op, in1, out         \* the function called on its own, its input, its results

appVars ==
  <<tz, testDate, anchor, clk, configStartDate, configEndDate, configTimeMode, calendarTasks, instance,
    currentDate, calendarDays, validationPerformed, warnings, pending, cause,
    comp, todaySeen, genErr, runs, unloaded>>

pureVars == <<op, in1, out>>

vars == <<appVars, pureVars>>

\* a function held as the table of its values, each computed once
Tabulated(f) == f @@ <<>>

\* the wall-clock instants and the end dates of the model, per start date
GridOf == Tabulated([key \in AppStartDates \X (0..MaxClock) |-> Grid(key[1], key[2])])

EndTexts == [a \in AppStartDates |-> {Text(e) : e \in AppEndDates(a)}]

\* new Date() now
Now == GridOf[<<anchor, clk>>]

\* dates between configStartDate and configEndDate inclusive, counted on the calendar
RangeDays == CountDays(Civil(configStartDate), Civil(configEndDate))

\* the configured range has startDate <= endDate
RangeInOrder == ~Before(Civil(configEndDate), Civil(configStartDate))

\* the task list is not empty and its length differs from the day count
Mismatch == Len(calendarTasks) > 0 /\ Len(calendarTasks) # RangeDays


(***************************************************************************)
(* components/TaskCard.vue                                                 *)
(***************************************************************************)
\* setStartOfDay(d): setUTCHours(0, 0, 0, 0) in utc mode, else setHours
setStartOfDay(mode, zone, d) ==
  IF mode = "utc" THEN setUTCHoursZero(d) ELSE setHoursZero(zone, d)

\* faulty variant of status: today is the instant of currentDate itself
statusByInstant(mode, zone, current, taskIndex, startDate) ==
  LET taskDate == getTaskDateByMode(mode, zone, taskIndex, startDate)
      t == setStartOfDay(mode, zone, parseYMDByMode(mode, zone, taskDate).t)
  IN  IF t = current THEN "active"
      ELSE IF t < current THEN "finished"
      ELSE "disabled"

\* the computed status of the card of task taskIndex
status(mode, zone, current, taskIndex, startDate) ==
  LET today == setStartOfDay(mode, zone,
                             parseYMDByMode(mode, zone, ymdByMode(mode, zone, current)).t)
      taskDate == getTaskDateByMode(mode, zone, taskIndex, startDate)
      t == setStartOfDay(mode, zone, parseYMDByMode(mode, zone, taskDate).t)
  IN  IF t = today THEN "active"
      ELSE IF t < today THEN "finished"
      ELSE "disabled"

(***************************************************************************)
(* Initial state: before main.ts calls createAppConfig                     *)
(***************************************************************************)
PureIdle == op = "none" /\ in1 = 0 /\ out = <<>>

Init ==
  /\ tz \in AppZones
  /\ anchor \in AppStartDates
  /\ testDate \in {NoTestDate, Text(NextDay(anchor))}
  /\ clk = 0
  /\ configStartDate = Text(anchor)
  /\ configEndDate \in EndTexts[anchor]
  /\ configTimeMode \in TimeModes
  /\ calendarTasks \in {TaskList(n) : n \in 0..MaxTasks}
  /\ instance = "none"
  /\ currentDate = 0
  /\ calendarDays = <<>>
  /\ validationPerformed = FALSE
  /\ warnings = 0
  /\ pending = {}
  /\ cause = "none"
  /\ comp = "none"
  /\ todaySeen = <<>>
  /\ genErr = "none"
  /\ runs = 0
  /\ unloaded = FALSE
  /\ PureIdle

\* updateCalendarDays tabulated over the inputs of the model: the guard, the
\* time mode, the zone, the range, the clock and the task count
Generations ==
  Tabulated(
  [key \in BOOLEAN \X TimeModes \X AppZones
             \X {<<a, e>> : a \in AppStartDates, e \in UNION {EndTexts[b] : b \in AppStartDates}}
             \X (0..MaxClock) \X (0..MaxTasks) |->
     updateCalendarDays(key[1], key[2], key[3], Grid(key[4][1], key[5]),
                        TaskList(key[6]), Text(key[4][1]), key[4][2])])

\* ymd(d) of the facade tabulated over the instants of the model
Instants ==
  {Grid(a, k) : a \in AppStartDates, k \in 0..MaxClock}
    \cup {newDateFromISO(Text(NextDay(a))) : a \in AppStartDates}

YmdOf ==
  Tabulated([key \in TimeModes \X AppZones \X Instants |->
               ymdByMode(key[1], key[2], key[3])])

\* the outcome of one call of updateCalendarDays written to the state
ApplyGeneration ==
  LET r == Generations[<<validationPerformed, configTimeMode, tz, <<anchor, configEndDate>>, clk,
                         Len(calendarTasks)>>]
  IN  /\ validationPerformed' = TRUE
      /\ warnings' = warnings + (IF r.warned THEN 1 ELSE 0)
      /\ genErr' = r.err
      /\ calendarDays' = IF r.err = "none" THEN r.days ELSE calendarDays

\* jobs a write of currentDate.value queues: the [currentDate, ...] watcher
\* and, while the component lives, its todayYMD watcher
CurrentDateJobs == {"genCfg"} \cup (IF comp # "none" THEN {"today"} ELSE {})

(***************************************************************************)
(* createAppConfig -> instantiateAppConfig (the first generation).  When   *)
(* the first generation throws, singletonInstance stays null ("crashed")   *)
(* and a later call of createAppConfig or useAppConfig instantiates again. *)
(***************************************************************************)
\* createAppConfig() while singletonInstance is null
createAppConfig ==
  /\ instance # "live"
  /\ runs < MaxRuns
  /\ ~unloaded
  /\ runs' = runs + 1
  /\ currentDate' = IF testDate # NoTestDate THEN newDateFromISO(testDate) ELSE Now
  /\ ApplyGeneration
  /\ instance' = IF genErr' = "none" THEN "live" ELSE "crashed"
  /\ UNCHANGED <<unloaded, tz, testDate, anchor, clk, configStartDate, configEndDate,
                 configTimeMode, calendarTasks, pending, cause, comp, todaySeen>>

\* main.ts: the one call of createAppConfig() at startup; when it throws the
\* application is not mounted
CreateAppConfig ==
  /\ runs = 0
  /\ createAppConfig
  /\ UNCHANGED pureVars

(***************************************************************************)
(* Events, taken when no watcher job is waiting.  After 'beforeunload'     *)
(* the page is on its way out: time still passes and timers that are not   *)
(* cleared still fire, but no user or configuration event arrives.         *)
(***************************************************************************)
\* no watcher job is waiting
Settled == instance = "live" /\ pending = {}

\* user and configuration events reach the page until it is unloaded
Idle == Settled /\ ~unloaded

\* time passes
AdvanceClock ==
  /\ Settled
  /\ clk < MaxClock
  /\ clk' = clk + 1
  /\ UNCHANGED <<runs, unloaded, tz, testDate, anchor, configStartDate, configEndDate, configTimeMode, calendarTasks, instance,
                 currentDate, calendarDays, validationPerformed, warnings, pending,
                 cause, comp, todaySeen, genErr, pureVars>>

\* an interval that 'beforeunload' does not clear
dayTickerNeverCleared == testDate = NoTestDate

\* the interval of the live instance is set (started only without a test
\* date) and has not been cleared
dayTickerRunning == testDate = NoTestDate /\ ~unloaded

\* a ticker that writes currentDate on every poll, changed day or not
TickEveryPoll ==
  /\ Settled
  /\ dayTickerRunning
  /\ currentDate' = Now
  /\ pending' = CurrentDateJobs
  /\ cause' = "tick"
  /\ UNCHANGED <<runs, unloaded, tz, testDate, anchor, clk, configStartDate, configEndDate,
                 configTimeMode, calendarTasks, instance, calendarDays, validationPerformed,
                 warnings, comp, todaySeen, genErr, pureVars>>

\* tick of the 30 s day ticker
Tick ==
  /\ Settled
  /\ dayTickerRunning
  /\ IF YmdOf[<<configTimeMode, tz, Now>>] # YmdOf[<<configTimeMode, tz, currentDate>>]
       THEN /\ currentDate' = Now
            /\ pending' = CurrentDateJobs
            /\ cause' = "tick"
       ELSE UNCHANGED <<currentDate, pending, cause>>
  /\ UNCHANGED <<runs, unloaded, tz, testDate, anchor, clk, configStartDate, configEndDate, configTimeMode, calendarTasks,
                 instance, calendarDays, validationPerformed, warnings, comp,
                 todaySeen, genErr, pureVars>>

\* config.timeMode changes
SetTimeMode(m) ==
  /\ Idle
  /\ m # configTimeMode
  /\ configTimeMode' = m
  /\ pending' = (IF testDate = NoTestDate THEN {"nowOnMode"} ELSE {})
                  \cup CurrentDateJobs
  /\ cause' = "setMode"
  /\ UNCHANGED <<runs, unloaded, tz, testDate, anchor, clk, configStartDate, configEndDate, calendarTasks, instance,
                 currentDate, calendarDays, validationPerformed, warnings, comp,
                 todaySeen, genErr, pureVars>>

\* calendar.tasks changes
SetTasks(n) ==
  /\ Idle
  /\ TaskList(n) # calendarTasks
  /\ calendarTasks' = TaskList(n)
  /\ pending' = {"genTasks"}
  /\ cause' = "setTasks"
  /\ UNCHANGED <<runs, unloaded, tz, testDate, anchor, clk, configStartDate, configEndDate, configTimeMode, instance,
                 currentDate, calendarDays, validationPerformed, warnings, comp,
                 todaySeen, genErr, pureVars>>

\* config.endDate changes
SetEndDate(e) ==
  /\ Idle
  /\ e # configEndDate
  /\ configEndDate' = e
  /\ pending' = {"genCfg"}
  /\ cause' = "setEnd"
  /\ UNCHANGED <<runs, unloaded, tz, testDate, anchor, clk, configStartDate, configTimeMode, calendarTasks, instance,
                 currentDate, calendarDays, validationPerformed, warnings, comp,
                 todaySeen, genErr, pureVars>>

\* CalendarContent setup: the todayYMD watcher starts with the current value
Setup ==
  /\ Idle
  /\ comp = "none"
  /\ comp' = "setup"
  /\ todaySeen' = YmdOf[<<configTimeMode, tz, currentDate>>]
  /\ UNCHANGED <<runs, unloaded, tz, testDate, anchor, clk, configStartDate, configEndDate, configTimeMode, calendarTasks,
                 instance, currentDate, calendarDays, validationPerformed, warnings,
                 pending, cause, genErr, pureVars>>

\* the onMounted hook past its awaits: today (by the wall clock) or the first
\* day is selected
Mounted ==
  /\ Idle
  /\ comp = "setup"
  /\ comp' = "mounted"
  /\ LET k == FindToday(calendarDays, YmdOf[<<configTimeMode, tz, Now>>])
     IN  calendarDays' = IF k = 0 THEN calendarDays ELSE SelectOnly(calendarDays, k)
  /\ UNCHANGED <<runs, unloaded, tz, testDate, anchor, clk, configStartDate, configEndDate, configTimeMode, calendarTasks,
                 instance, currentDate, validationPerformed, warnings, pending,
                 cause, todaySeen, genErr, pureVars>>

\* handleDayClick(day) on the i-th day of the picker
DayClick(i) ==
  /\ Idle
  /\ comp # "none"
  /\ i \in 1..Len(calendarDays)
  /\ calendarDays' = SelectOnly(calendarDays, i)
  /\ UNCHANGED <<runs, unloaded, tz, testDate, anchor, clk, configStartDate, configEndDate, configTimeMode, calendarTasks,
                 instance, currentDate, validationPerformed, warnings, pending,
                 cause, comp, todaySeen, genErr, pureVars>>

\* handleTaskClick(task) for a task that is not active: today (by the wall
\* clock) or the first day is selected
TaskClick ==
  /\ Idle
  /\ comp # "none"
  /\ Len(calendarDays) > 0
  /\ calendarDays' = SelectOnly(calendarDays, FindToday(calendarDays, YmdOf[<<configTimeMode, tz, Now>>]))
  /\ UNCHANGED <<runs, unloaded, tz, testDate, anchor, clk, configStartDate, configEndDate,
                 configTimeMode, calendarTasks, instance, currentDate, validationPerformed,
                 warnings, pending, cause, comp, todaySeen, genErr, pureVars>>

\* 'beforeunload' on window: every instantiation without a test date has
\* registered a listener that clears its interval
BeforeUnload ==
  /\ runs > 0
  /\ testDate = NoTestDate
  /\ pending = {}
  /\ ~unloaded
  /\ unloaded' = TRUE
  /\ UNCHANGED <<runs, tz, testDate, anchor, clk, configStartDate, configEndDate,
                 configTimeMode, calendarTasks, instance, currentDate, calendarDays,
                 validationPerformed, warnings, pending, cause, comp, todaySeen, genErr,
                 pureVars>>

(***************************************************************************)
(* Watcher jobs of one flush.  The watchers of useAppConfig run in the     *)
(* order they were created (configTimeMode, calendarTasks, [currentDate, ...]); where    *)
(* the component's watcher falls among them is the scheduler's choice.     *)
(***************************************************************************)
\* the event behind the jobs still waiting; forgotten when the flush ends
FlushCause(left) == IF left = {} THEN "none" ELSE cause

Rank(j) == CASE j = "nowOnMode" -> 1 [] j = "genTasks" -> 2 [] j = "genCfg" -> 3 [] OTHER -> 0

Runnable(j) ==
  /\ instance = "live"
  /\ j \in pending
  /\ j = "today" \/ \A k \in pending \ {"today"} : Rank(j) <= Rank(k)

\* watch(() => config.value.timeMode): currentDate.value = new Date()
RunNowOnMode ==
  /\ Runnable("nowOnMode")
  /\ currentDate' = Now
  /\ pending' = (pending \ {"nowOnMode"}) \cup CurrentDateJobs
  /\ UNCHANGED <<runs, unloaded, tz, testDate, anchor, clk, configStartDate, configEndDate, configTimeMode, calendarTasks,
                 instance, calendarDays, validationPerformed, warnings, cause, comp,
                 todaySeen, genErr, pureVars>>

\* the calendarTasks watcher and the [currentDate, configTimeMode, configStartDate, configEndDate]
\* watcher: updateCalendarDays()
RunGen(j) ==
  /\ j \in {"genTasks", "genCfg"}
  /\ Runnable(j)
  /\ ApplyGeneration
  /\ pending' = pending \ {j}
  /\ cause' = FlushCause(pending')
  /\ UNCHANGED <<runs, unloaded, tz, testDate, anchor, clk, configStartDate, configEndDate, configTimeMode, calendarTasks,
                 instance, currentDate, comp, todaySeen, pureVars>>

\* watch(todayYMD) of CalendarContent: its body runs when the value changed
RunToday ==
  /\ Runnable("today")
  /\ LET newDay == YmdOf[<<configTimeMode, tz, currentDate>>]
     IN  IF newDay # todaySeen
           THEN /\ calendarDays' = OnTodayChanged(configTimeMode, tz, Now, calendarDays, newDay)
                /\ todaySeen' = newDay
           ELSE UNCHANGED <<calendarDays, todaySeen>>
  /\ pending' = pending \ {"today"}
  /\ cause' = FlushCause(pending')
  /\ UNCHANGED <<runs, unloaded, tz, testDate, anchor, clk, configStartDate, configEndDate, configTimeMode, calendarTasks,
                 instance, currentDate, validationPerformed, warnings, comp,
                 genErr, pureVars>>

Next ==
  \/ CreateAppConfig
  \/ AdvanceClock
  \/ Tick
  \/ \E m \in TimeModes : SetTimeMode(m)
  \/ \E n \in 0..MaxTasks : SetTasks(n)
  \/ \E e \in EndTexts[anchor] : SetEndDate(e)
  \/ Setup
  \/ Mounted
  \/ \E i \in 1..(MaxSpan + 1) : DayClick(i)
  \/ TaskClick
  \/ BeforeUnload
  \/ RunNowOnMode
  \/ \E j \in {"genTasks", "genCfg"} : RunGen(j)
  \/ RunToday

Spec == Init /\ [][Next]_vars

(***************************************************************************)
(* Properties of the application (Spec)                                    *)
(***************************************************************************)
\* a step in which updateCalendarDays ran: the first generation, or one of
\* the two regeneration watchers
GenStep ==
  \/ runs' = runs + 1
  \/ \E j \in {"genTasks", "genCfg"} : j \in pending /\ j \notin pending'

\* the task the generator attaches at 1-based position i
CyclicTask(i) == calendarTasks[((i - 1) % Len(calendarTasks)) + 1]

\* C1: after any (re)generation with a non-empty task list no error is raised
\* and the day at zero-based position i has hasTask and carries
\* tasks[i mod n]; the task CalendarContent.getTaskForDay renders for that
\* day is the same.
C1_TasksAttachedCyclically ==
  [][(GenStep /\ Len(calendarTasks) > 0) =>
       /\ genErr' = "none"
       /\ \A i \in 1..Len(calendarDays') :
            /\ calendarDays'[i].hasTask
            /\ calendarDays'[i].task = CyclicTask(i)
            /\ RenderedTask(calendarDays', calendarTasks, calendarDays'[i]) = CyclicTask(i)]_vars

\* a list of three days generated from two tasks: the third day carries the
\* first task again
C1_TasksRepeat ==
  /\ instance = "live"
  /\ pending = {}
  /\ genErr = "none"
  /\ Len(calendarTasks) = 2
  /\ Len(calendarDays) = 3
  /\ calendarDays[2].task = calendarTasks[2]
  /\ calendarDays[3].task = calendarTasks[1]

\* C3: a (re)generation with an empty task list, the first or a later one,
\* fails with an error and does not replace calendarDays.
C3_EmptyTaskListFails ==
  [][(GenStep /\ Len(calendarTasks) = 0) =>
       (genErr' # "none" /\ calendarDays' = calendarDays)]_vars

\* C4: with startDate later than endDate the generation fails with an error
\* and produces no day list.
C4_InvertedRangeFails ==
  [][(GenStep /\ ~RangeInOrder) =>
       (genErr' # "none" /\ calendarDays' = calendarDays)]_vars

\* C5: a generation with a non-empty task list whose length differs from the
\* number of days leaves exactly one mismatch warning emitted in the
\* session; while every generation has had equal counts, none is emitted.
C5_MismatchWarnedOnce ==
  [][GenStep =>
       /\ Mismatch => warnings' = 1
       /\ (~Mismatch /\ warnings = 0) => warnings' = 0]_vars

\* C6: after every (re)generation each record has isToday = M.isToday(date),
\* isActive = M.isToday(M.getTaskDate(i, startDate)) and isSelected = false,
\* for the facade M of the configured time mode.
C6_FlagsFollowTimeMode ==
  [][(GenStep /\ genErr' = "none") =>
       \A i \in 1..Len(calendarDays') :
         /\ calendarDays'[i].isToday
              = isTodayByMode(configTimeMode, tz, Now, calendarDays'[i].date)
         /\ calendarDays'[i].isActive
              = isTodayByMode(configTimeMode, tz, Now,
                              getTaskDateByMode(configTimeMode, tz, i - 1, configStartDate))
         /\ ~calendarDays'[i].isSelected]_vars

\* C7: the flags are decided against currentDate, the refreshed clock or the
\* frozen test date: after a generation exactly the record dated as
\* currentDate (if any) has isToday and isActive.
C7_FlagsFollowCurrentDate ==
  [][(GenStep /\ genErr' = "none") =>
       \A i \in 1..Len(calendarDays') :
         /\ calendarDays'[i].isToday
              = (calendarDays'[i].date = YmdOf[<<configTimeMode, tz, currentDate'>>])
         /\ calendarDays'[i].isActive
              = (calendarDays'[i].date = YmdOf[<<configTimeMode, tz, currentDate'>>])]_vars

\* the regeneration that follows a change of day of currentDate
DayAdvanceGen == GenStep /\ cause = "tick" /\ genErr' = "none"

\* the fields of a record the generator derives from the range and the tasks
SameDay(d, e) ==
  /\ d.id = e.id
  /\ d.date = e.date
  /\ d.day = e.day
  /\ d.hasTask = e.hasTask
  /\ d.task = e.task

WallDay == YmdOf[<<configTimeMode, tz, Now>>]
CurrentDay == YmdOf[<<configTimeMode, tz, currentDate>>]

\* a step of the ticker that writes currentDate
TickWrites == cause = "none" /\ cause' = "tick"

\* the last watcher job of the flush a tick started
TickFlushEnds == cause = "tick" /\ cause' = "none"

\* the day d lies in the configured range
InRange(d) ==
  /\ ~Before(Civil(d), Civil(configStartDate))
  /\ ~Before(Civil(configEndDate), Civil(d))

\* a tick writes currentDate only when the day string has changed, and then
\* it writes the new instant and leaves the list to the watchers
TickOnlyOnNewDay ==
  TickWrites =>
    /\ testDate = NoTestDate
    /\ WallDay # CurrentDay
    /\ currentDate' = Now
    /\ calendarDays' = calendarDays

\* isActive is on the record of the day of currentDate and on no other
ActiveOnCurrentDay ==
  /\ CurrentDay' = WallDay'
  /\ \A i \in 1..Len(calendarDays') :
       calendarDays'[i].isActive = (calendarDays'[i].date = CurrentDay')
  /\ InRange(CurrentDay') => \E i \in 1..Len(calendarDays') : calendarDays'[i].isActive

C17_TickerClearedOnTeardown ==
  [][/\ (unloaded \/ testDate # NoTestDate) => ~TickWrites
     /\ (unloaded /\ unloaded') => currentDate' = currentDate
     /\ (testDate # NoTestDate /\ instance = "live") =>
          /\ currentDate' = currentDate
          /\ currentDate = newDateFromISO(testDate)]_vars

\* the page was unloaded and the wall clock has since passed midnight: a
\* timer still running would now write currentDate
C17_MidnightAfterTeardown ==
  /\ unloaded
  /\ instance = "live"
  /\ testDate = NoTestDate
  /\ WallDay # CurrentDay

\* the record the mount is to select: the one dated as currentDate, else the
\* first
IsMountTarget(days, i) ==
  IF \E j \in 1..Len(days) : days[j].date = CurrentDay
    THEN days[i].date = CurrentDay
    ELSE i = 1

\* C22: when CalendarContent mounts with a non-empty list, afterwards
\* exactly one record is selected: the one whose date is the day of
\* currentDate in the active mode (the test date when one is given), or the
\* first record when no record has that date.
C22_MountSelectsCurrentDate ==
  [][(comp = "setup" /\ comp' = "mounted" /\ Len(calendarDays') > 0) =>
       \A i \in 1..Len(calendarDays') :
         calendarDays'[i].isSelected = IsMountTarget(calendarDays', i)]_vars

\* C23: opened with ?testDate=D, the app's today, ymd(currentDate), is D in
\* local and in utc mode whatever the offset of the host zone, for the whole
\* session.
C23_TodayIsTestDate ==
  (instance = "live" /\ testDate # NoTestDate) => CurrentDay = testDate

\* C26: once CalendarContent has mounted with a non-empty list and no
\* watcher is waiting, exactly one record has isSelected, whatever day
\* clicks, task clicks, day rollovers and regenerations have happened and in
\* whatever order the watchers ran.
C26_SingleSelection ==
  (comp = "mounted" /\ pending = {} /\ Len(calendarDays) > 0) =>
    Cardinality({i \in 1..Len(calendarDays) : calendarDays[i].isSelected}) = 1

(***************************************************************************)
(* The date functions on their own: a zone, a start date, an end date and  *)
(* a task index are drawn, and one of the functions is called with them.   *)
(***************************************************************************)
InitDates ==
  /\ tz \in Zones
  /\ anchor \in StartDates
  /\ testDate = NoTestDate
  /\ clk = 0
  /\ configStartDate = Text(anchor)
  /\ configEndDate \in {Text(e) : e \in EndDates(anchor)}
  /\ configTimeMode = "local"
  /\ calendarTasks = TaskList(1)
  /\ instance = "none"
  /\ currentDate = 0
  /\ calendarDays = <<>>
  /\ validationPerformed = FALSE
  /\ warnings = 0
  /\ pending = {}
  /\ cause = "none"
  /\ comp = "none"
  /\ todaySeen = <<>>
  /\ genErr = "none"
  /\ runs = 0
  /\ unloaded = FALSE
  /\ op = "none"
  /\ in1 \in 0..MaxIndex
  /\ out = <<>>

\* getTaskDate and the facade's getTaskDate of both modes
CallGetTaskDate ==
  /\ op = "none"
  /\ op' = "getTaskDate"
  /\ out' = [plain |-> getTaskDate(tz, in1, configStartDate),
             local |-> getTaskDateByMode("local", tz, in1, configStartDate),
             utc |-> getTaskDateByMode("utc", tz, in1, configStartDate)]
  /\ UNCHANGED <<appVars, in1>>

\* getDaysBetween and the facade's getDaysBetween of both modes
CallGetDaysBetween ==
  /\ op = "none"
  /\ op' = "getDaysBetween"
  /\ out' = [plain |-> getDaysBetween(tz, configStartDate, configEndDate),
             local |-> getDaysBetweenByMode("local", tz, configStartDate, configEndDate),
             utc |-> getDaysBetweenByMode("utc", tz, configStartDate, configEndDate)]
  /\ UNCHANGED <<appVars, in1>>

\* generateCalendarDays(), the clock at 03:00Z of the start date
CallGenerateCalendarDays ==
  /\ op = "none"
  /\ op' = "generateCalendarDays"
  /\ out' = generateCalendarDays(tz, Grid(anchor, 0), configStartDate, configEndDate)
  /\ UNCHANGED <<appVars, in1>>

\* getTaskForDate for the day before the start date or a day in1 days
\* after it, with a task list of up to MaxTasks + 1 tasks
CallGetTaskForDate ==
  /\ op = "none"
  /\ op' = "getTaskForDate"
  /\ \E d \in {PrevDay(anchor), AddDays(anchor, in1)}, n \in 0..(MaxTasks + 1) :
       out' = [date |-> d, tasks |-> TaskList(n),
               found |-> getTaskForDate(tz, Text(d), TaskList(n), configStartDate)]
  /\ UNCHANGED <<appVars, in1>>

NextDates ==
  \/ CallGetTaskDate
  \/ CallGetDaysBetween
  \/ CallGenerateCalendarDays
  \/ CallGetTaskForDate

SpecDates == InitDates /\ [][NextDates]_vars

(***************************************************************************)
(* Properties of the date functions (SpecDates)                            *)
(***************************************************************************)
\* C2: for a range with startDate <= endDate generateCalendarDays returns one
\* record per calendar date of the range, in ascending order; the k-th record
\* has id k, the date startDate + (k - 1) days and that date's day of month.
C2_OneRecordPerDate ==
  (op = "generateCalendarDays" /\ RangeInOrder) =>
    /\ Len(out) = RangeDays
    /\ \A k \in 1..Len(out) :
         /\ out[k].id = k
         /\ out[k].date = Text(AddDays(anchor, k - 1))
         /\ out[k].day = AddDays(anchor, k - 1)[3]

\* C9: for start <= end getDaysBetween and the facade's getDaysBetween, in
\* local and in UTC mode, all return the inclusive number of calendar days,
\* also when the range spans a daylight-saving transition.
C9_InclusiveDayCount ==
  (op = "getDaysBetween" /\ RangeInOrder) =>
    /\ out.plain = RangeDays
    /\ out.local = RangeDays
    /\ out.utc = RangeDays

\* C30: getTaskForDate(d) is the lookup without wrap-around: for a date d
\* that is i days after startDate with 0 <= i < task count it returns
\* tasks[i], the task updateCalendarDays attaches to the record dated d,
\* also across a daylight-saving transition; for d before startDate or
\* i >= task count it returns undefined.
C30_TaskOfDateWithoutWrap ==
  op = "getTaskForDate" =>
    LET i == CountDays(anchor, out.date) - 1
        days == updateCalendarDays(FALSE, configTimeMode, tz, Grid(anchor, 0), out.tasks,
                                   configStartDate, configEndDate).days
    IN  IF ~Before(out.date, anchor) /\ i < Len(out.tasks)
          THEN /\ out.found = [ok |-> TRUE, task |-> out.tasks[i + 1]]
               /\ \A k \in 1..Len(days) :
                    days[k].date = Text(out.date) => days[k].task = out.found.task
          ELSE ~out.found.ok

WellFormed(s) ==
  /\ Len(s) = 10
  /\ s[5] = "-"
  /\ s[8] = "-"
  /\ \A k \in (1..10) \ {5, 8} : s[k] \in DigitSet

\* the civil date exists on the calendar
ExistingDate(c) ==
  /\ c[1] >= 1
  /\ c[2] \in 1..12
  /\ c[3] \in 1..DaysInMonth(c[1], c[2])

\* dates that exist: those of StartDates, a leap day, and dates of a
\* three-digit and of a two-digit year
ParseDates == StartDates \cup {<<2024, 2, 29>>, <<999, 12, 31>>, <<50, 1, 1>>}

\* texts of the right shape that name no date of the calendar
OverflowDates ==
  {<<2025, 11, 31>>, <<2025, 2, 30>>, <<2025, 2, 29>>, <<2024, 2, 30>>, <<2025, 4, 31>>,
   <<2025, 1, 32>>, <<2025, 13, 1>>, <<2025, 0, 10>>, <<2025, 1, 0>>}

\* a text with the k-th character left out, replaced, or with c put before it
Drop(s, k) == SubSeq(s, 1, k - 1) \o SubSeq(s, k + 1, Len(s))

Put(s, k, c) == [s EXCEPT ![k] = c]

Insert(s, k, c) == SubSeq(s, 1, k - 1) \o <<c>> \o SubSeq(s, k, Len(s))

\* texts of another shape: one edit away from 2025-10-26, and texts with
\* empty, missing and surplus groups
EditedTexts ==
  UNION {{Drop(Text(<<2025, 10, 26>>), k), Put(Text(<<2025, 10, 26>>), k, "a"),
          Put(Text(<<2025, 10, 26>>), k, "-"), Insert(Text(<<2025, 10, 26>>), k, "0")}
           : k \in 1..10}

OtherTexts ==
  {<<>>, <<"-", "-">>, <<"2", "0", "2", "5", "-", "-", "0", "1">>,
   <<"2", "0", "2", "5", "-", "1", "-", "5">>,
   <<"2", "0", "2", "5", "-", "1", "0">>,
   <<"2", "0", "2", "5", "-", "1", "0", "-", "2", "6", "-", "0", "1">>,
   <<"a", "b", "c", "d", "-", "e", "f", "-", "g", "h">>}

ParseInputs ==
  {Text(c) : c \in ParseDates \cup OverflowDates} \cup EditedTexts \cup OtherTexts

InitParse ==
  /\ tz \in Zones
  /\ anchor = <<2025, 10, 26>>
  /\ testDate = NoTestDate
  /\ clk = 0
  /\ configStartDate = Text(anchor)
  /\ configEndDate = Text(anchor)
  /\ configTimeMode = "local"
  /\ calendarTasks = TaskList(1)
  /\ instance = "none"
  /\ currentDate = 0
  /\ calendarDays = <<>>
  /\ validationPerformed = FALSE
  /\ warnings = 0
  /\ pending = {}
  /\ cause = "none"
  /\ comp = "none"
  /\ todaySeen = <<>>
  /\ genErr = "none"
  /\ runs = 0
  /\ unloaded = FALSE
  /\ op = "none"
  /\ in1 \in ParseInputs
  /\ out = <<>>

\* format(parse(s)): [thrown, text] of the local pair and of the UTC pair
CallRoundTrip ==
  /\ op = "none"
  /\ op' = "roundTrip"
  /\ out' = [local |-> IF parseYMDLocal(tz, in1).ok
                         THEN [thrown |-> FALSE, text |-> ymdLocal(tz, parseYMDLocal(tz, in1).t)]
                         ELSE [thrown |-> TRUE, text |-> <<>>],
             utc |-> IF parseYMDUTC(in1).ok
                       THEN [thrown |-> FALSE, text |-> ymdUTC(parseYMDUTC(in1).t)]
                       ELSE [thrown |-> TRUE, text |-> <<>>]]
  /\ UNCHANGED <<appVars, in1>>

\* parseYMDLocal(s) and parseYMDUTC(s)
CallParseYMD ==
  /\ op = "none"
  /\ op' = "parseYMD"
  /\ out' = [local |-> parseYMDLocal(tz, in1), utc |-> parseYMDUTC(in1)]
  /\ UNCHANGED <<appVars, in1>>

\* parseYMDStrict(s) of dateUtils and of the validate-config script
CallParseYMDStrict ==
  /\ op = "none"
  /\ op' = "parseYMDStrict"
  /\ out' = [app |-> parseYMDStrict(tz, in1), script |-> validateConfigParseYMDStrict(tz, in1)]
  /\ UNCHANGED <<appVars, in1>>

NextParse ==
  \/ CallRoundTrip
  \/ CallParseYMD
  \/ CallParseYMDStrict

SpecParse == InitParse /\ [][NextParse]_vars

(***************************************************************************)
(* Properties of the parsers (SpecParse)                                   *)
(***************************************************************************)
\* C11: for every text s of the shape YYYY-MM-DD that names an existing date,
\* format(parse(s)) = s for the local pair and for the UTC pair, in every
\* zone; so the output has a four-digit year and two-digit month and day.
C11_FormatParseRoundTrip ==
  (op = "roundTrip" /\ WellFormed(in1) /\ ExistingDate(Civil(in1))) =>
    /\ ~out.local.thrown /\ out.local.text = in1
    /\ ~out.utc.thrown /\ out.utc.text = in1

\* C12: for a text of the shape YYYY-MM-DD parseYMDStrict returns a date
\* exactly when the text names an existing date, the date returned has that
\* year, month and day, an overflowing text gives null, and the copy of the
\* validate-config script returns the same.
C12_StrictAcceptsExistingDates ==
  (op = "parseYMDStrict" /\ WellFormed(in1)) =>
    /\ out.app.ok = ExistingDate(Civil(in1))
    /\ out.app.ok =>
         <<getFullYear(tz, out.app.t), getMonth(tz, out.app.t) + 1, getDate(tz, out.app.t)>>
           = Civil(in1)
    /\ out.script = out.app

\* C13: parseYMDLocal and parseYMDUTC raise an error for every text that is
\* not three groups of four, two and two digits joined by "-".
C13_MalformedTextRaises ==
  (op = "parseYMD" /\ ~WellFormed(in1)) => (~out.local.ok /\ ~out.utc.ok)

(***************************************************************************)
(* The picker grid on its own: a zone, a time mode, a range, the week      *)
(* settings and the viewport are drawn; the day list is generated and      *)
(* grouped.                                                                *)
(***************************************************************************)
Lang(name) ==
  CASE name = "en" -> <<"e", "n">>
    [] name = "en-US" -> <<"e", "n", "-", "U", "S">>
    [] name = "en-us" -> <<"e", "n", "-", "u", "s">>
    [] name = "fr-CA" -> <<"f", "r", "-", "C", "A">>
    [] name = "fil-PH" -> <<"f", "i", "l", "-", "P", "H">>
    [] name = "de-DE" -> <<"d", "e", "-", "D", "E">>
    [] name = "zh-Hant-TW" -> <<"z", "h", "-", "H", "a", "n", "t", "-", "T", "W">>
    [] name = "en-Latn-US" -> <<"e", "n", "-", "L", "a", "t", "n", "-", "U", "S">>

\* week settings, language, platform week info and viewport of the grid
WeekInputs ==
  [alignByWeekday : BOOLEAN,
   firstDayOfWeek : {"absent", "auto", "monday", "sunday"},
   wide : BOOLEAN,
   lang : {Lang("en"), Lang("en-US")},
   weekInfo : {NoWeekInfo}]

InitWeek ==
  /\ tz \in Zones
  /\ anchor \in StartDates
  /\ testDate = NoTestDate
  /\ clk = 0
  /\ configStartDate = Text(anchor)
  /\ configEndDate \in {Text(e) : e \in EndDates(anchor)}
  /\ configTimeMode \in TimeModes
  /\ calendarTasks = TaskList(1)
  /\ instance = "none"
  /\ currentDate = 0
  /\ calendarDays = <<>>
  /\ validationPerformed = FALSE
  /\ warnings = 0
  /\ pending = {}
  /\ cause = "none"
  /\ comp = "none"
  /\ todaySeen = <<>>
  /\ genErr = "none"
  /\ runs = 0
  /\ unloaded = FALSE
  /\ op = "none"
  /\ in1 \in WeekInputs
  /\ out = <<>>

\* the first day of week groupedDays resolves
ResolvedFirstDay ==
  getFirstDayOfWeekFromLang(in1.weekInfo, in1.lang,
                            IF in1.firstDayOfWeek = "absent" THEN "auto" ELSE in1.firstDayOfWeek)

\* groupedDays over the generated day list
CallGroupedDays ==
  /\ op = "none"
  /\ op' = "groupedDays"
  /\ calendarDays' = updateCalendarDays(FALSE, configTimeMode, tz, Grid(anchor, 0),
                                        calendarTasks, configStartDate, configEndDate).days
  /\ out' = groupedDays(configTimeMode, tz, in1.weekInfo, in1.lang,
                        [alignByWeekday |-> in1.alignByWeekday,
                         firstDayOfWeek |-> in1.firstDayOfWeek],
                        in1.wide, calendarDays')
  /\ UNCHANGED <<runs, unloaded, tz, testDate, anchor, clk, configStartDate, configEndDate, configTimeMode,
                 calendarTasks, instance, currentDate, validationPerformed, warnings,
                 pending, cause, comp, todaySeen, genErr, in1>>

\* buildMonthDays for the month of the start date
CallBuildMonthDays ==
  /\ op = "none"
  /\ op' = "buildMonthDays"
  /\ out' = buildMonthDays(tz, anchor[1], anchor[2] - 1, ResolvedFirstDay)
  /\ UNCHANGED <<appVars, in1>>

NextWeek ==
  \/ CallGroupedDays
  \/ CallBuildMonthDays

SpecWeek == InitWeek /\ [][NextWeek]_vars

(***************************************************************************)
(* Properties of the picker grid (SpecWeek)                                *)
(***************************************************************************)
\* weekday of a civil date, 0 = Sunday (Sakamoto's rule)
MonthShift == <<0, 3, 2, 5, 0, 3, 5, 1, 4, 6, 2, 4>>

Weekday(c) ==
  LET y == IF c[2] < 3 THEN c[1] - 1 ELSE c[1]
  IN  (y + (y \div 4) - (y \div 100) + (y \div 400) + MonthShift[c[2]] + c[3]) % 7

\* the grid column (0..6) a date belongs in
Column(c, firstDayOfWeek) == (Weekday(c) - firstDayOfWeek + 7) % 7

\* the number of placeholder cells at the head of a group
RECURSIVE LeadingPlaceholders(_)
LeadingPlaceholders(cells) ==
  IF cells # <<>> /\ IsPlaceholder(Head(cells)) THEN 1 + LeadingPlaceholders(Tail(cells)) ELSE 0

\* the real days of all groups, in the order of the groups
RECURSIVE RealDays(_)
RealDays(groups) ==
  IF groups = <<>> THEN <<>>
  ELSE SelectSeq(Head(groups).days, LAMBDA d : ~IsPlaceholder(d)) \o RealDays(Tail(groups))

\* the groups are the months of the day list: the real days of all groups are
\* the day list, a group holds the days of one month, two groups differ in it
GroupedByMonth(groups, days) ==
  /\ RealDays(groups) = days
  /\ \A g \in 1..Len(groups) :
       LET real == SelectSeq(groups[g].days, LAMBDA d : ~IsPlaceholder(d))
       IN  /\ real # <<>>
           /\ \A k \in 1..Len(real) :
                /\ Civil(real[k].date)[1] = Civil(real[1].date)[1]
                /\ Civil(real[k].date)[2] = Civil(real[1].date)[2]
           /\ \A h \in 1..Len(groups) :
                h # g => LET other == SelectSeq(groups[h].days, LAMBDA d : ~IsPlaceholder(d))
                         IN  <<Civil(other[1].date)[1], Civil(other[1].date)[2]>>
                               # <<Civil(real[1].date)[1], Civil(real[1].date)[2]>>

\* C14: with alignment on (alignByWeekday and a viewport of 768px or more)
\* every month group is offset placeholders, offset being the column of its
\* first real day, followed by the real days of that month in order, so each
\* real day sits in the column of its weekday; placeholders have no date,
\* are not today, active or selected and take no click.  With alignment off
\* there is no placeholder.
C14_GroupsAlignedToWeekdays ==
  op = "groupedDays" =>
    /\ GroupedByMonth(out, calendarDays)
    /\ \A g \in 1..Len(out) :
         LET cells == out[g].days
             offset == LeadingPlaceholders(cells)
         IN  IF in1.alignByWeekday /\ in1.wide
               THEN /\ offset < Len(cells)
                    /\ offset = Column(Civil(cells[offset + 1].date), ResolvedFirstDay)
                    /\ \A p \in 1..Len(cells) :
                         IF p <= offset
                           THEN /\ IsPlaceholder(cells[p])
                                /\ cells[p].date = <<>>
                                /\ ~cells[p].isToday
                                /\ ~cells[p].isActive
                                /\ ~cells[p].isSelected
                           ELSE /\ ~IsPlaceholder(cells[p])
                                /\ (p - 1) % 7 = Column(Civil(cells[p].date), ResolvedFirstDay)
               ELSE offset = 0 /\ \A p \in 1..Len(cells) : ~IsPlaceholder(cells[p])

\* the year and month written in a date string
YearMonth(date) == <<Civil(date)[1], Civil(date)[2]>>

\* groupedDays of the day list generated for the configured range in a mode
GroupedIn(mode) ==
  groupedDays(mode, tz, in1.weekInfo, in1.lang,
              [alignByWeekday |-> in1.alignByWeekday, firstDayOfWeek |-> in1.firstDayOfWeek],
              in1.wide,
              updateCalendarDays(FALSE, mode, tz, Grid(anchor, 0), calendarTasks,
                                 configStartDate, configEndDate).days)

\* C28: in both time modes and in every zone each real day is in the group
\* of the year and month written in its date string, the group is labelled
\* with that month, the groups ascend, the placeholders of a group are as
\* many as the column of the date written in its first day, and the groups
\* of utc mode equal those of local mode for the same range.
C28_GroupsFollowDateStrings ==
  op = "groupedDays" =>
    /\ \A g \in 1..Len(out) :
         LET real == SelectSeq(out[g].days, LAMBDA d : ~IsPlaceholder(d))
         IN  /\ real # <<>>
             /\ \A k \in 1..Len(real) : YearMonth(real[k].date) = YearMonth(real[1].date)
             /\ out[g].month = MonthNames[Civil(real[1].date)[2]]
             /\ (in1.alignByWeekday /\ in1.wide) =>
                  LeadingPlaceholders(out[g].days)
                    = Column(Civil(real[1].date), ResolvedFirstDay)
             /\ \A h \in 1..(g - 1) :
                  LET earlier == SelectSeq(out[h].days, LAMBDA d : ~IsPlaceholder(d))
                  IN  \/ YearMonth(earlier[1].date)[1] < YearMonth(real[1].date)[1]
                      \/ /\ YearMonth(earlier[1].date)[1] = YearMonth(real[1].date)[1]
                         /\ YearMonth(earlier[1].date)[2] < YearMonth(real[1].date)[2]
    /\ GroupedIn("utc") = GroupedIn("local")

(***************************************************************************)
(* getFirstDayOfWeekFromLang on its own: the config value, the language    *)
(* tag and the answer of the platform are drawn.                           *)
(***************************************************************************)
LocaleInputs ==
  [cfg : {"auto", "monday", "sunday"},
   lang : {Lang(n) : n \in {"en", "en-US", "en-us", "fr-CA", "fil-PH", "de-DE",
                            "zh-Hant-TW", "en-Latn-US"}},
   weekInfo : {LocaleThrows, NoWeekInfo, FirstDay(0), FirstDay(1), FirstDay(6), FirstDay(7)}]

InitLocale ==
  /\ tz = ZoneUTC
  /\ anchor = <<2025, 10, 26>>
  /\ testDate = NoTestDate
  /\ clk = 0
  /\ configStartDate = Text(anchor)
  /\ configEndDate = Text(anchor)
  /\ configTimeMode = "local"
  /\ calendarTasks = TaskList(1)
  /\ instance = "none"
  /\ currentDate = 0
  /\ calendarDays = <<>>
  /\ validationPerformed = FALSE
  /\ warnings = 0
  /\ pending = {}
  /\ cause = "none"
  /\ comp = "none"
  /\ todaySeen = <<>>
  /\ genErr = "none"
  /\ runs = 0
  /\ unloaded = FALSE
  /\ op = "none"
  /\ in1 \in LocaleInputs
  /\ out = <<>>

CallGetFirstDayOfWeekFromLang ==
  /\ op = "none"
  /\ op' = "getFirstDayOfWeekFromLang"
  /\ out' = getFirstDayOfWeekFromLang(in1.weekInfo, in1.lang, in1.cfg)
  /\ UNCHANGED <<appVars, in1>>

NextLocale == CallGetFirstDayOfWeekFromLang

SpecLocale == InitLocale /\ [][NextLocale]_vars

(***************************************************************************)
(* Properties of getFirstDayOfWeekFromLang (SpecLocale)                    *)
(***************************************************************************)
\* the region of a language tag language[-Script][-REGION], in upper case;
\* the empty text when the tag has none
Region(lang) ==
  LET sub == Split(lang, "-")
      at == IF Len(sub) >= 2 /\ Len(sub[2]) = 4 THEN 3 ELSE 2
  IN  IF Len(sub) >= at /\ Len(sub[at]) = 2 THEN ToUpperCase(sub[at]) ELSE <<>>

\* C15: an explicit 'monday' gives 1 and 'sunday' gives 0 whatever language
\* and platform; with 'auto' a week-info value of 0 or 1 is returned;
\* otherwise the region decides: US, CA or PH gives 0, any other or no
\* region gives 1.  The result is 0 or 1.
C15_FirstDayByPrecedence ==
  op = "getFirstDayOfWeekFromLang" =>
    /\ out \in {0, 1}
    /\ out = IF in1.cfg = "monday" THEN 1
             ELSE IF in1.cfg = "sunday" THEN 0
             ELSE IF in1.weekInfo \in {FirstDay(0), FirstDay(1)} THEN in1.weekInfo.firstDay
             ELSE IF Region(in1.lang) \in SundayRegions THEN 0 ELSE 1


(***************************************************************************)
(* The singleton on its own (SpecSingleton): from the initial state of the *)
(* application, createAppConfig and useAppConfig are called in any order,  *)
(* after main.ts has provided the instance or without main.ts.  out lists  *)
(* the calls made: who called, and the instance returned, named by the     *)
(* run of instantiateAppConfig that built it (0: the call threw).          *)
(***************************************************************************)
\* the call and what it returned
Returned(call, id) == [call |-> call, instance |-> id]

\* createAppConfig(): the singleton if there is one, a new instance if not
CallCreateAppConfig(call) ==
  /\ Len(out) < MaxCalls
  /\ IF instance = "live"
       THEN /\ out' = Append(out, Returned(call, runs))
            /\ UNCHANGED appVars
       ELSE /\ createAppConfig
            /\ out' = Append(out, Returned(call, IF genErr' = "none" THEN runs' ELSE 0))
  /\ op' = call
  /\ UNCHANGED in1

\* main.ts: createAppConfig() and app.provide(AppConfigKey, instance)
MainTs ==
  /\ out = <<>>
  /\ CallCreateAppConfig("main")

\* inject(AppConfigKey, null) finds the instance main.ts provided
Provided == out # <<>> /\ out[1].call = "main" /\ out[1].instance # 0

\* the application runs: main.ts has not been aborted by a throwing call
Running == ~(out # <<>> /\ out[1].call = "main" /\ out[1].instance = 0)

\* a direct call of createAppConfig()
DirectCreateAppConfig ==
  /\ Running
  /\ CallCreateAppConfig("createAppConfig")

\* useAppConfig(): the provided instance, or createAppConfig()
UseAppConfig ==
  /\ Running
  /\ IF Provided
       THEN /\ Len(out) < MaxCalls
            /\ out' = Append(out, Returned("useAppConfig", out[1].instance))
            /\ op' = "useAppConfig"
            /\ UNCHANGED <<appVars, in1>>
       ELSE CallCreateAppConfig("useAppConfig")

NextSingleton ==
  \/ MainTs
  \/ DirectCreateAppConfig
  \/ UseAppConfig

SpecSingleton == Init /\ [][NextSingleton]_vars

(***************************************************************************)
(* Properties of the singleton (SpecSingleton)                             *)
(***************************************************************************)
\* C18: whatever the sequence of createAppConfig and useAppConfig calls,
\* with or without the instance provided by main.ts, instantiateAppConfig
\* has run at most once (one calendarDays list, one currentDate, one poll
\* timer) and every call that returned has returned the same instance.
C18_OneInstancePerApplication ==
  /\ runs <= 1
  /\ \A i, j \in 1..Len(out) :
       (out[i].instance # 0 /\ out[j].instance # 0) => out[i].instance = out[j].instance


(***************************************************************************)
(* updateCalendarDays on its own (SpecRegen): from the initial state of    *)
(* the application the function is called again and again while the range, *)
(* the time mode, the task list and currentDate stay as they are; only the *)
(* wall clock moves.  out lists, per call, the clock, whether the call     *)
(* threw, and calendarDays after it.                                       *)
(***************************************************************************)
\* the refs of instantiateAppConfig before the first call: currentDate is
\* the test date or the wall clock, calendarDays is empty
InitRegen ==
  /\ tz \in AppZones
  /\ anchor \in AppStartDates
  /\ testDate \in {NoTestDate, Text(NextDay(anchor))}
  /\ clk = 0
  /\ configStartDate = Text(anchor)
  /\ configEndDate \in EndTexts[anchor]
  /\ configTimeMode \in TimeModes
  /\ calendarTasks \in {TaskList(n) : n \in 0..MaxTasks}
  /\ instance = "none"
  /\ currentDate = IF testDate # NoTestDate THEN newDateFromISO(testDate) ELSE Now
  /\ calendarDays = <<>>
  /\ validationPerformed = FALSE
  /\ warnings = 0
  /\ pending = {}
  /\ cause = "none"
  /\ comp = "none"
  /\ todaySeen = <<>>
  /\ genErr = "none"
  /\ runs = 0
  /\ unloaded = FALSE
  /\ PureIdle

CallUpdateCalendarDays ==
  /\ Len(out) < MaxCalls
  /\ ApplyGeneration
  /\ out' = Append(out, [at |-> clk, thrown |-> genErr' # "none", days |-> calendarDays'])
  /\ op' = "updateCalendarDays"
  /\ UNCHANGED <<runs, unloaded, tz, testDate, anchor, clk, configStartDate, configEndDate,
                 configTimeMode, calendarTasks, instance, currentDate, pending, cause, comp,
                 todaySeen, in1>>

\* time passes between two calls; currentDate is not written
WallClockPasses ==
  /\ clk < MaxClock
  /\ clk' = clk + 1
  /\ UNCHANGED <<runs, unloaded, tz, testDate, anchor, configStartDate, configEndDate,
                 configTimeMode, calendarTasks, instance, currentDate, calendarDays,
                 validationPerformed, warnings, pending, cause, comp, todaySeen, genErr,
                 pureVars>>

NextRegen ==
  \/ CallUpdateCalendarDays
  \/ WallClockPasses

SpecRegen == InitRegen /\ [][NextRegen]_vars

(***************************************************************************)
(* Properties of the regeneration (SpecRegen)                              *)
(***************************************************************************)
\* C19: regenerating is idempotent: with the range, the time mode, the task
\* list and currentDate unchanged, every further call of updateCalendarDays
\* ends as the first did and leaves calendarDays equal to what the first
\* call left (same length, ids from 1, same dates, tasks and flags).
C19_RegenerationIdempotent ==
  \A i \in 1..Len(out) :
    /\ out[i].thrown = out[1].thrown
    /\ out[i].days = out[1].days

\* C29: for a range with startDate <= endDate, in both time modes and in
\* every zone, the day count validateTasksAndDays expects is the number of
\* records the generation produces, so a task list with one task per
\* generated record causes no mismatch warning.
C29_ExpectedDaysAreGeneratedDays ==
  (op = "updateCalendarDays" /\ RangeInOrder /\ ~out[1].thrown) =>
    /\ getDaysBetween(tz, configStartDate, configEndDate) = Len(out[1].days)
    /\ Len(calendarTasks) = Len(out[1].days) => warnings = 0


(***************************************************************************)
(* The status of one TaskCard (SpecStatus): a zone, a time mode, a start   *)
(* date and a task index are drawn; currentDate starts at the first        *)
(* instant of the clock and is then written with later instants, as the    *)
(* ticker does.  out lists the status computed after every write.          *)
(***************************************************************************)
\* last position of the clock: two instants a day over the days of all cards
MaxStatusClock == 2 * MaxIndex + 2

InitStatus ==
  /\ tz \in Zones
  /\ anchor \in StartDates
  /\ testDate = NoTestDate
  /\ clk = 0
  /\ configStartDate = Text(anchor)
  /\ configEndDate = Text(AddDays(anchor, MaxIndex))
  /\ configTimeMode \in TimeModes
  /\ calendarTasks = TaskList(1)
  /\ instance = "none"
  /\ currentDate = Grid(anchor, 0)
  /\ calendarDays = <<>>
  /\ validationPerformed = FALSE
  /\ warnings = 0
  /\ pending = {}
  /\ cause = "none"
  /\ comp = "none"
  /\ todaySeen = <<>>
  /\ genErr = "none"
  /\ runs = 0
  /\ unloaded = FALSE
  /\ op = "status"
  /\ in1 \in 0..MaxIndex
  /\ out = <<status(configTimeMode, tz, currentDate, in1, configStartDate)>>

\* currentDate.value = now, and the computed status evaluated again
WriteCurrentDate ==
  /\ clk < MaxStatusClock
  /\ clk' = clk + 1
  /\ currentDate' = Grid(anchor, clk')
  /\ out' = Append(out, status(configTimeMode, tz, currentDate', in1, configStartDate))
  /\ UNCHANGED <<runs, unloaded, tz, testDate, anchor, configStartDate, configEndDate,
                 configTimeMode, calendarTasks, instance, calendarDays, validationPerformed,
                 warnings, pending, cause, comp, todaySeen, genErr, op, in1>>

NextStatus == WriteCurrentDate

SpecStatus == InitStatus /\ [][NextStatus]_vars

(***************************************************************************)
(* Properties of the TaskCard status (SpecStatus)                          *)
(***************************************************************************)
\* the day of the card and the day of currentDate, as calendar dates
TaskDay == Civil(getTaskDateByMode(configTimeMode, tz, in1, configStartDate))
Today == Civil(ymdByMode(configTimeMode, tz, currentDate))

\* disabled, then active, then finished
StatusRank(st) == CASE st = "disabled" -> 0 [] st = "active" -> 1 [] st = "finished" -> 2

\* C20: for every task index and every currentDate the status is active
\* iff the card's date is today (the day of currentDate in the active
\* mode), finished iff it is before today, disabled iff it is after; and
\* while currentDate advances the status only moves from disabled to active
\* to finished.
C20_StatusFollowsCurrentDate ==
  /\ out[Len(out)] \in {"active", "finished", "disabled"}
  /\ out[Len(out)] = "active" <=> TaskDay = Today
  /\ out[Len(out)] = "finished" <=> Before(TaskDay, Today)
  /\ out[Len(out)] = "disabled" <=> Before(Today, TaskDay)
  /\ \A j, k \in 1..Len(out) : j <= k => StatusRank(out[j]) <= StatusRank(out[k])

\* a card that was disabled, then active, and is now finished
C20_CardWentThroughAllStatuses ==
  /\ op = "status"
  /\ out[1] = "disabled"
  /\ \E j \in 1..Len(out) : out[j] = "active"
  /\ out[Len(out)] = "finished"


(***************************************************************************)
(* The countdown interval of one TaskCard (SpecCard).  out is the card:    *)
(* timerInterval (0 for null), the handles of its intervals still set in   *)
(* the window, the number of intervals it has made, whether the last run   *)
(* of the watchEffect registered a cleanup, whether the effect waits to    *)
(* run again, whether the scope is disposed, the instant last written to   *)
(* currentTime, and whether the card has ever been active.                 *)
(***************************************************************************)
\* the cleanup of the watchEffect and the onScopeDispose callback:
\* if (timerInterval) { clearInterval(timerInterval); timerInterval = null }
clearTimerInterval(card) ==
  IF card.timerInterval # 0
    THEN [card EXCEPT !.running = @ \ {card.timerInterval}, !.timerInterval = 0]
    ELSE card

\* a watchEffect whose earlier cleanup is not called before it runs again
watchEffectWithoutCleanup(card, active) ==
  IF active
    THEN [card EXCEPT !.timerInterval = card.made + 1,
                      !.running = @ \cup {card.made + 1},
                      !.made = @ + 1,
                      !.onCleanup = TRUE,
                      !.dirty = FALSE]
    ELSE [card EXCEPT !.onCleanup = FALSE, !.dirty = FALSE]

\* one run of the watchEffect: the cleanup registered by the run before,
\* then the body
watchEffect(card, active) ==
  LET cleaned == IF card.onCleanup THEN clearTimerInterval(card) ELSE card
  IN  IF active
        THEN [cleaned EXCEPT !.timerInterval = cleaned.made + 1,
                             !.running = @ \cup {cleaned.made + 1},
                             !.made = @ + 1,
                             !.onCleanup = TRUE,
                             !.dirty = FALSE]
        ELSE [cleaned EXCEPT !.onCleanup = FALSE, !.dirty = FALSE]

\* the scope is stopped: the effect's cleanup, then the onScopeDispose hook
onScopeDispose(card) ==
  LET cleaned == IF card.onCleanup THEN clearTimerInterval(card) ELSE card
  IN  [clearTimerInterval(cleaned) EXCEPT !.onCleanup = FALSE, !.dirty = FALSE,
                                          !.disposed = TRUE]

\* isTaskActive of the card of task taskIndex
isTaskActive(mode, zone, current, taskIndex, startDate) ==
  status(mode, zone, current, taskIndex, startDate) = "active"

\* isTaskActive of the card of task in1, now
CardActive == isTaskActive(configTimeMode, tz, currentDate, in1, configStartDate)

\* the card before its setup has run the watchEffect
NewCard ==
  [timerInterval |-> 0, running |-> {}, made |-> 0, onCleanup |-> FALSE, dirty |-> FALSE,
   disposed |-> FALSE, currentTime |-> 0, wasActive |-> FALSE]

\* number of intervals one card may make
MaxIntervals == 3

InitCard ==
  /\ tz \in Zones
  /\ anchor \in AppStartDates
  /\ testDate = NoTestDate
  /\ clk = 0
  /\ configStartDate = Text(anchor)
  /\ configEndDate = Text(AddDays(anchor, MaxSpan))
  /\ configTimeMode \in TimeModes
  /\ calendarTasks = TaskList(1)
  /\ instance = "none"
  /\ currentDate = Grid(anchor, 0)
  /\ calendarDays = <<>>
  /\ validationPerformed = FALSE
  /\ warnings = 0
  /\ pending = {}
  /\ cause = "none"
  /\ comp = "none"
  /\ todaySeen = <<>>
  /\ genErr = "none"
  /\ runs = 0
  /\ unloaded = FALSE
  /\ op = "card"
  /\ in1 \in 0..MaxSpan
  /\ out = [watchEffect(NewCard, CardActive) EXCEPT
              !.currentTime = currentDate, !.wasActive = CardActive]

\* a dependency of isTaskActive was written: the effect is queued when the
\* value has changed, and may be queued when it has not
Invalidate(card, before, after, spurious) ==
  [card EXCEPT !.dirty = ~card.disposed /\ (@ \/ before # after \/ spurious),
               !.wasActive = @ \/ (after /\ ~card.disposed)]

\* the day ticker writes currentDate
CardCurrentDateWritten ==
  /\ ~out.dirty
  /\ clk < 2 * MaxSpan + 2
  /\ clk' = clk + 1
  /\ currentDate' = Grid(anchor, clk')
  /\ UNCHANGED <<runs, unloaded, tz, testDate, anchor, configStartDate, configEndDate,
                 configTimeMode, calendarTasks, instance, calendarDays, validationPerformed,
                 warnings, pending, cause, comp, todaySeen, genErr, op, in1>>
  /\ \E spurious \in BOOLEAN :
       out' = Invalidate(out, CardActive,
                         isTaskActive(configTimeMode, tz, currentDate', in1, configStartDate),
                         spurious)

\* config.timeMode changes
CardTimeModeChanged ==
  /\ ~out.dirty
  /\ out.made < MaxIntervals
  /\ configTimeMode' = IF configTimeMode = "utc" THEN "local" ELSE "utc"
  /\ UNCHANGED <<runs, unloaded, tz, testDate, anchor, clk, configStartDate, configEndDate,
                 calendarTasks, instance, currentDate, calendarDays, validationPerformed,
                 warnings, pending, cause, comp, todaySeen, genErr, op, in1>>
  /\ out' = Invalidate(out, CardActive,
                     isTaskActive(configTimeMode', tz, currentDate, in1, configStartDate),
                     FALSE)

\* the queued watchEffect runs
RunWatchEffect ==
  /\ out.dirty
  /\ out.made < MaxIntervals
  /\ out' = watchEffect(out, CardActive)
  /\ UNCHANGED <<appVars, op, in1>>

\* an interval of the card fires: currentTime.value = new Date()
IntervalFires ==
  /\ ~out.dirty
  /\ out.running # {}
  /\ out.currentTime # currentDate
  /\ out' = [out EXCEPT !.currentTime = currentDate]
  /\ UNCHANGED <<appVars, op, in1>>

\* the card is unmounted
DisposeCard ==
  /\ ~out.disposed
  /\ out' = onScopeDispose(out)
  /\ UNCHANGED <<appVars, op, in1>>

NextCard ==
  \/ CardCurrentDateWritten
  \/ CardTimeModeChanged
  \/ RunWatchEffect
  \/ IntervalFires
  \/ DisposeCard

SpecCard == InitCard /\ [][NextCard]_vars

(***************************************************************************)
(* Properties of the TaskCard interval (SpecCard)                          *)
(***************************************************************************)
\* C21: a card holds a running interval iff it is active (once the queued
\* watchEffect has run): never more than one interval, the running one is
\* the one in timerInterval, none is running after the scope is disposed,
\* and a card that was never active has made none.
C21_IntervalIffActive ==
  /\ Cardinality(out.running) <= 1
  /\ out.running \subseteq {out.timerInterval}
  /\ (~out.dirty /\ ~out.disposed) => (out.running # {} <=> CardActive)
  /\ out.disposed => out.running = {}
  /\ ~out.wasActive => out.made = 0

\* a card that was active twice and has been disposed while active
C21_DisposedWhileActive ==
  /\ op = "card"
  /\ out.disposed
  /\ out.made = 2
  /\ CardActive


(***************************************************************************)
(* Lifecycle of CalendarContent (SpecContent).  out is the component:      *)
(* where its asynchronous onMounted hook stands, whether it is unmounted,  *)
(* whether the template ref daysContainerRef is set, the listeners it has  *)
(* registered, isScheduled and rafId (0 for null) of scheduleUpdateMonth,  *)
(* the animation-frame callbacks of scheduleUpdateMonth still pending, the *)
(* scroll events and scroll bursts seen, the calls of updateCurrentMonth,  *)
(* and whether the hook changed the selection or scrolled after unmount.   *)
(***************************************************************************)
\* number of scroll events in one burst, and of bursts
MaxScrolls == 3
MaxBursts == 4

\* the component after setup and render, before its mounted hook
NewContent ==
  [hook |-> "start", unmounted |-> FALSE, daysContainerRef |-> TRUE,
   scrollListener |-> FALSE, resizeListener |-> FALSE, isScheduled |-> FALSE, rafId |-> 0,
   pendingUpdates |-> 0, scrolls |-> 0, bursts |-> 0, updates |-> 0, lateWork |-> FALSE]

\* a scheduleUpdateMonth that requests a frame for every scroll event
scheduleUpdateMonthEveryEvent(c) ==
  [c EXCEPT !.isScheduled = TRUE, !.rafId = 1, !.pendingUpdates = @ + 1]

\* scheduleUpdateMonth()
scheduleUpdateMonth(c) ==
  IF c.isScheduled THEN c
  ELSE [c EXCEPT !.isScheduled = TRUE, !.rafId = 1, !.pendingUpdates = @ + 1]

\* onUnmounted; the template ref has been unset when the hook runs
onUnmounted(c) ==
  LET cancelled == IF c.rafId # 0
                     THEN [c EXCEPT !.pendingUpdates = 0, !.rafId = 0]
                     ELSE c
      removed == IF cancelled.daysContainerRef
                   THEN [cancelled EXCEPT !.scrollListener = FALSE]
                   ELSE cancelled
  IN  [removed EXCEPT !.resizeListener = FALSE]

InitContent ==
  /\ tz = ZoneUTC
  /\ anchor \in AppStartDates
  /\ testDate = NoTestDate
  /\ clk = 0
  /\ configStartDate = Text(anchor)
  /\ configEndDate = Text(anchor)
  /\ configTimeMode = "local"
  /\ calendarTasks = TaskList(1)
  /\ instance = "none"
  /\ currentDate = 0
  /\ calendarDays = <<>>
  /\ validationPerformed = FALSE
  /\ warnings = 0
  /\ pending = {}
  /\ cause = "none"
  /\ comp = "none"
  /\ todaySeen = <<>>
  /\ genErr = "none"
  /\ runs = 0
  /\ unloaded = FALSE
  /\ op = "content"
  /\ in1 = 0
  /\ out = NewContent

\* onMounted up to its first await: the scroll listener is added
OnMounted ==
  /\ out.hook = "start"
  /\ out' = [out EXCEPT !.hook = "awaitTick", !.scrollListener = out.daysContainerRef]
  /\ UNCHANGED <<appVars, op, in1>>

\* nextTick resolves: the hook requests an animation frame and waits for it
NextTickResolves ==
  /\ out.hook = "awaitTick"
  /\ out' = [out EXCEPT !.hook = "awaitFrame"]
  /\ UNCHANGED <<appVars, op, in1>>

\* the frame of the hook: the rest of onMounted runs, unmounted or not
MountedFrame ==
  /\ out.hook = "awaitFrame"
  /\ out' = [out EXCEPT !.hook = "done", !.resizeListener = TRUE,
                        !.lateWork = out.unmounted]
  /\ UNCHANGED <<appVars, op, in1>>

\* a scroll event on the days container, which is in the document
ScrollEvent ==
  /\ out.scrollListener
  /\ ~out.unmounted
  /\ out.scrolls < MaxScrolls
  /\ out.scrolls = 0 => out.bursts < MaxBursts
  /\ out' = [scheduleUpdateMonth(out) EXCEPT
               !.scrolls = @ + 1,
               !.bursts = IF out.scrolls = 0 THEN @ + 1 ELSE @]
  /\ UNCHANGED <<appVars, op, in1>>

\* a frame callback of scheduleUpdateMonth runs
UpdateMonthFrame ==
  /\ out.pendingUpdates > 0
  /\ out' = [out EXCEPT !.updates = @ + 1, !.isScheduled = FALSE, !.rafId = 0,
                        !.pendingUpdates = @ - 1, !.scrolls = 0]
  /\ UNCHANGED <<appVars, op, in1>>

\* the component is unmounted: the ref is unset, then onUnmounted runs
Unmount ==
  /\ out.hook # "start"
  /\ ~out.unmounted
  /\ out' = [onUnmounted([out EXCEPT !.daysContainerRef = FALSE]) EXCEPT !.unmounted = TRUE]
  /\ UNCHANGED <<appVars, op, in1>>

NextContent ==
  \/ OnMounted
  \/ NextTickResolves
  \/ MountedFrame
  \/ ScrollEvent
  \/ UpdateMonthFrame
  \/ Unmount

SpecContent == InitContent /\ [][NextContent]_vars

(***************************************************************************)
(* Properties of the component lifecycle (SpecContent)                     *)
(***************************************************************************)
\* C24: while the component is mounted at most one frame callback of
\* scheduleUpdateMonth is pending; isScheduled holds exactly while one is
\* pending, so the callback resets it and the next scroll event schedules
\* again; and every burst of scroll events between two frames has caused
\* one callback, hence one updateCurrentMonth call.
C24_OneUpdatePerFrame ==
  ~out.unmounted =>
    /\ out.pendingUpdates <= 1
    /\ out.isScheduled <=> out.pendingUpdates = 1
    /\ out.isScheduled <=> out.rafId # 0
    /\ out.isScheduled <=> out.scrolls > 0
    /\ out.updates + out.pendingUpdates = out.bursts

\* two bursts of several scroll events each have been served
C24_TwoBurstsServed ==
  /\ op = "content"
  /\ ~out.unmounted
  /\ out.bursts = 2
  /\ out.updates = 2

\* C25: after the component has been unmounted, also while onMounted was
\* still waiting, no scroll listener, no resize listener and no frame
\* callback of the component is left, and the hook changes no selection and
\* scrolls nothing.
C25_NothingLeftAfterUnmount ==
  out.unmounted =>
    /\ ~out.scrollListener
    /\ ~out.resizeListener
    /\ out.pendingUpdates = 0
    /\ out.hook # "awaitFrame"
    /\ ~out.lateWork


(***************************************************************************)
(* scrollWrapTo of CalendarContent (SpecScroll).  out is the days          *)
(* container and the timers of the page: the inline scroll-snap-type of    *)
(* the container, its scrollWidth and clientWidth, the last target handed  *)
(* to scrollTo (empty before the first)  , the pending restore timers in  *)
(* the order they were set, each with the value it saved and the time it   *)
(* is due, the time in milliseconds, and the number of calls made.         *)
(***************************************************************************)
SCROLL_ANIMATION_DURATION_MS == 320

\* calls of scrollWrapTo in one behaviour
MaxScrollCalls == 3

\* the time between two moments at which something can happen
ClickGap == SCROLL_ANIMATION_DURATION_MS \div 2

\* widths of the container and of its content, and requested positions
ClientWidth == 2
ScrollWidths == ClientWidth .. ClientWidth + 2
Lefts == -1 .. 3
NoTarget == <<>>

\* Math.max / Math.min on integers
MathMax(a, b) == IF a >= b THEN a ELSE b
MathMin(a, b) == IF a <= b THEN a ELSE b

\* prev || 'x mandatory'
OrMandatory(prev) == IF prev = "" THEN "x mandatory" ELSE prev

\* scrollWrapTo(left, instant) on the container w at time now
scrollWrapTo(w, left, instant) ==
  IF ~w.daysContainerRef THEN w
  ELSE LET prev == w.scrollSnapType
           max == w.scrollWidth - w.clientWidth
           clamped == MathMax(0, MathMin(left, max))
           delay == IF instant THEN 0 ELSE SCROLL_ANIMATION_DURATION_MS
       IN  [w EXCEPT !.scrollSnapType = "none",
                     !.target = <<clamped>>,
                     !.timers = Append(@, [prev |-> prev, due |-> w.now + delay])]

\* the pending timer the page runs next: the earliest due, the first set
\* among those due together
NextTimer(w) ==
  CHOOSE i \in 1..Len(w.timers) :
    \A j \in 1..Len(w.timers) :
      \/ w.timers[i].due < w.timers[j].due
      \/ (w.timers[i].due = w.timers[j].due /\ i <= j)

Without(s, i) == SubSeq(s, 1, i - 1) \o SubSeq(s, i + 1, Len(s))

InitScroll ==
  /\ tz = ZoneUTC
  /\ anchor \in AppStartDates
  /\ testDate = NoTestDate
  /\ clk = 0
  /\ configStartDate = Text(anchor)
  /\ configEndDate = Text(anchor)
  /\ configTimeMode = "local"
  /\ calendarTasks = TaskList(1)
  /\ instance = "none"
  /\ currentDate = 0
  /\ calendarDays = <<>>
  /\ validationPerformed = FALSE
  /\ warnings = 0
  /\ pending = {}
  /\ cause = "none"
  /\ comp = "none"
  /\ todaySeen = <<>>
  /\ genErr = "none"
  /\ runs = 0
  /\ unloaded = FALSE
  /\ op = "scroll"
  /\ in1 = 0
  /\ \E sw \in ScrollWidths, ref \in BOOLEAN :
       out = [daysContainerRef |-> ref, scrollSnapType |-> "", scrollWidth |-> sw,
              clientWidth |-> ClientWidth, target |-> NoTarget, timers |-> <<>>,
              now |-> 0, calls |-> 0]

\* a click or a watcher calls scrollWrapTo
CallScrollWrapTo ==
  /\ out.calls < MaxScrollCalls
  /\ \E left \in Lefts, instant \in BOOLEAN :
       out' = [scrollWrapTo(out, left, instant) EXCEPT !.calls = @ + 1]
  /\ UNCHANGED <<appVars, op, in1>>

\* a restore timer that is due runs
RestoreTimerFires ==
  /\ out.timers # <<>>
  /\ out.timers[NextTimer(out)].due <= out.now
  /\ out' = [out EXCEPT !.scrollSnapType = OrMandatory(out.timers[NextTimer(out)].prev),
                        !.timers = Without(@, NextTimer(out))]
  /\ UNCHANGED <<appVars, op, in1>>

\* time passes while timers wait and none is due
TimePasses ==
  /\ out.timers # <<>>
  /\ out.timers[NextTimer(out)].due > out.now
  /\ out' = [out EXCEPT !.now = @ + ClickGap]
  /\ UNCHANGED <<appVars, op, in1>>

NextScroll ==
  \/ CallScrollWrapTo
  \/ RestoreTimerFires
  \/ TimePasses

SpecScroll == InitScroll /\ [][NextScroll]_vars

(***************************************************************************)
(* Properties of scrollWrapTo (SpecScroll)                                 *)
(***************************************************************************)
\* C27: once every restore timer has fired the inline scroll-snap-type of
\* the days container is its value before the first call or 'x mandatory',
\* not 'none', whatever calls overlapped; and every target handed to
\* scrollTo lies in [0, scrollWidth - clientWidth].
C27_SnapRestored ==
  /\ (out.calls > 0 /\ out.timers = <<>>) => out.scrollSnapType \in {"", "x mandatory"}
  /\ out.target # NoTarget => out.target[1] \in 0 .. (out.scrollWidth - out.clientWidth)

============================================================================
